---- MODULE Spec2Model ----
(***************************************************************************)
(* A state-machine model of the crypto-gainers scanner: one scan pass of   *)
(* each scanner variant (scanner_supabase_http, scanner_coingecko_sqlite,  *)
(* scanner_supabase, scanner_supabase_old, scanner_mvp), the alerts ledger *)
(* and the Telegram dispatcher.                                            *)
(*                                                                         *)
(* Conventions.  Python's None is the empty tuple <<>> and a present value *)
(* x is <<x>> wherever a field is optional.  A floating-point percentage   *)
(* is kept exactly, as a pair <<numerator, denominator>>.  A DataFrame is  *)
(* held in the state as a handle (a string); Df1h and Df15m give its rows. *)
(* The indicator library "ta" is not part of the repository: the last      *)
(* values of its RSI, MACD and signal series are data of a frame.          *)
(* Time is counted in ticks, TicksPerHour of them in an hour.              *)
(***************************************************************************)
EXTENDS Integers, Sequences, FiniteSets, TLC

VARIABLES
    variant,        \* which scanner script this process runs
    pc,             \* position of scan_once
    now,            \* the scanner host's clock, in ticks
    skew,           \* ledger server's clock minus the scanner host's clock
    EXCHANGES,      \* the EXCHANGES setting, split at the commas
    passes,         \* passes started so far
    work,           \* candidates taken up so far, over all passes
    ledger,         \* the alerts table: a sequence of rows, in insertion order
    cg_map,         \* _CG_SYMBOL_MAP: "None", "empty" or "built"
    filtered,       \* http: the candidates of this pass, after the baseline filter
    markets,        \* sqlite, supabase, mvp: the CoinGecko market entries of this pass
    mapped,         \* supabase, mvp: the (coin, exchange symbol) pairs of this pass
    idx,            \* index of the candidate being processed (1-based)
    df1h,           \* handle of the hourly frame of the candidate
    df15m,          \* handle of the 15-minute frame of the candidate
    used_fallback,  \* the local of that name
    sig,            \* http: compute_signals' result for the candidate
    ind,            \* supabase, mvp: compute_indicators' result for the coin
    trace,          \* what has been done for the candidate so far
    alerts_sent,    \* the list scan_once returns
    loaded,         \* http: the exchanges whose markets are loaded in this pass
    read_failed,    \* history: a ledger read has failed in some pass so far
    candidates,     \* http: the candidates of this pass, before the baseline filter
    outbox,         \* the asset keys of the messages Telegram accepted in this pass
    attempted,      \* the asset keys send_telegram was called for in this pass
    fn_in,          \* function bench: the arguments of the call
    fn_out,         \* function bench: the value returned, <<>> before the call
    workers,        \* two overlapping runs: each run's position and locals
    env,            \* the required settings as the process finds them at start-up
    conn            \* supabase_old get_conn: the addresses, the position, the attempts made

(* The settings of a run, the lists of a pass, the locals of an iteration *)
settings == <<variant, skew, EXCHANGES, env>>
lists    == <<candidates, filtered, markets, mapped, loaded>>
bench    == <<fn_in, fn_out, conn>>
locals   == <<df1h, df15m, used_fallback, sig, ind, trace>>

vars == <<settings, pc, now, passes, work, ledger, cg_map, lists, idx, locals,
          alerts_sent, read_failed, outbox, attempted, bench, workers>>

----------------------------------------------------------------------------
(* Bounds of the model *)

TicksPerHour == 4
MaxPasses == 2
MaxFetches == 2

(* Program constants *)

DEDUPE_HOURS == 6
MIN_VOLUME_USD == 10000
VOL_CHANGE_THRESHOLD_PCT == 150
PRICE_MIN_PCT == 3
PRICE_MAX_PCT == 15
RSI_LOW == 50
RSI_HIGH == 70

None == <<>>
Some(x) == <<x>>
NoFrame == "None"

Hours(h) == h * TicksPerHour

(* The delays between two passes that the model tries: 2 h, just under     *)
(* 6 h, 6 h, just over 6 h, 7 h.                                           *)
Delays == {Hours(2), Hours(6) - 1, Hours(6), Hours(6) + 1, Hours(7)}

(* Ledger clock minus scanner clock: half an hour behind, equal, ahead.    *)
Skews == {-2, 0, 2}

----------------------------------------------------------------------------
(* Sequences *)

RECURSIVE SumSeq(_)
SumSeq(s) == IF s = <<>> THEN 0 ELSE Head(s) + SumSeq(Tail(s))

(* Python's s[-n:] and s[-m:-n] for 0 < n < m *)
LastN(s, n) == SubSeq(s, IF Len(s) > n THEN Len(s) - n + 1 ELSE 1, Len(s))
Window(s, m, n) ==
    SubSeq(s, IF Len(s) > m THEN Len(s) - m + 1 ELSE 1, Len(s) - n)

Column(rows, f) == [i \in 1..Len(rows) |-> rows[i][f]]

----------------------------------------------------------------------------
(* Bar data.  A frame is [bars, rsi, macd, signal]: bars is the sequence   *)
(* of rows [close, volume] in ascending time order; rsi is the last value  *)
(* of ta's RSI(14) series over the closes (None for NaN); macd and signal  *)
(* are the last two values <<previous, current>> of ta's MACD(26, 12, 9)   *)
(* line and signal line.                                                   *)

MkBars(n, vOld, vPrev, vLast, cPrev, cLast) ==
    [i \in 1..n |->
        [close  |-> IF i = n THEN cLast ELSE cPrev,
         volume |-> IF i > n - 24 THEN vLast
                    ELSE IF i > n - 48 THEN vPrev ELSE vOld]]

MkFrame(bars, rsi, macd, signal) ==
    [bars |-> bars, rsi |-> rsi, macd |-> macd, signal |-> signal]

CrossUp   == <<-1, 1>>      \* MACD line: below the signal, then above
Touch     == <<-1, 0>>      \* below the signal, then equal to it
Above     == <<1, 2>>       \* above the signal at both bars
FlatSig   == <<0, 0>>       \* the signal line at both bars

(* Hourly frames an exchange may return (fetch_ohlcv, limit 72). *)
ExchangeHandles1h ==
    {"h_pass", "h_pass_hi", "h_vol149", "h_vol0", "h_rsi49", "h_rsi71",
     "h_rsinan", "h_above", "h_touch", "h_close0", "h_short40", "h_short10"}

(* 15-minute frames an exchange may return (fetch_ohlcv, limit 8). *)
ExchangeHandles15m == {"f_102", "f_103", "f_115", "f_116"}

(* Frames build_ohlcv_from_coingecko may synthesize. *)
CgHandles == {"cg_pass", "cg_short", "cg_empty"}

Df1h(h) ==
    CASE h = "h_pass"    -> MkFrame(MkBars(72, 7, 100, 250, 100, 101), Some(50), CrossUp, FlatSig)
      [] h = "h_pass_hi" -> MkFrame(MkBars(72, 7, 100, 300, 100, 101), Some(70), CrossUp, FlatSig)
      [] h = "h_vol149"  -> MkFrame(MkBars(72, 7, 100, 249, 100, 101), Some(60), CrossUp, FlatSig)
      [] h = "h_vol0"    -> MkFrame(MkBars(72, 7, 0, 250, 100, 101), Some(60), CrossUp, FlatSig)
      [] h = "h_rsi49"   -> MkFrame(MkBars(72, 7, 100, 300, 100, 101), Some(49), CrossUp, FlatSig)
      [] h = "h_rsi71"   -> MkFrame(MkBars(72, 7, 100, 300, 100, 101), Some(71), CrossUp, FlatSig)
      [] h = "h_rsinan"  -> MkFrame(MkBars(72, 7, 100, 300, 100, 101), None, CrossUp, FlatSig)
      [] h = "h_above"   -> MkFrame(MkBars(72, 7, 100, 300, 100, 101), Some(60), Above, FlatSig)
      [] h = "h_touch"   -> MkFrame(MkBars(72, 7, 100, 300, 100, 101), Some(60), Touch, FlatSig)
      [] h = "h_close0"  -> MkFrame(MkBars(72, 7, 100, 300, 0, 101), Some(60), CrossUp, FlatSig)
      [] h = "h_short40" -> MkFrame(MkBars(40, 7, 100, 300, 100, 101), Some(60), CrossUp, FlatSig)
      [] h = "h_short10" -> MkFrame(MkBars(10, 7, 100, 300, 100, 101), None, <<>>, <<>>)
      [] h = "cg_pass"   -> MkFrame(MkBars(72, 7, 100, 300, 100, 101), Some(60), CrossUp, FlatSig)
      [] h = "cg_short"  -> MkFrame(MkBars(30, 7, 100, 300, 100, 101), Some(60), <<>>, <<>>)
      [] OTHER           -> MkFrame(<<>>, None, <<>>, <<>>)

Df15m(h) ==
    CASE h = "f_102"     -> MkFrame(MkBars(8, 1, 1, 1, 100, 102), None, <<>>, <<>>)
      [] h = "f_103"     -> MkFrame(MkBars(8, 1, 1, 1, 100, 103), None, <<>>, <<>>)
      [] h = "f_115"     -> MkFrame(MkBars(8, 1, 1, 1, 100, 115), None, <<>>, <<>>)
      [] h = "f_116"     -> MkFrame(MkBars(8, 1, 1, 1, 100, 116), None, <<>>, <<>>)
      [] h = "cg_pass"   -> MkFrame(MkBars(72, 1, 1, 1, 100, 106), None, <<>>, <<>>)
      [] h = "cg_short"  -> MkFrame(MkBars(30, 1, 1, 1, 100, 106), None, <<>>, <<>>)
      [] OTHER           -> MkFrame(<<>>, None, <<>>, <<>>)

(* len(df) and df.empty of a frame that is not None *)
LenDf(frame) == Len(frame.bars)
IsEmpty(frame) == frame.bars = <<>>

----------------------------------------------------------------------------
(* Indicators: scanner_supabase_http.compute_signals *)

(* An exact percentage <<num, den>> (den > 0) against a whole threshold *)
PctGe(q, k) == q[1] >= k * q[2]
PctLe(q, k) == q[1] <= k * q[2]

(* (a / b - 1.0) * 100.0 *)
PctChange(a, b) == <<(a - b) * 100, b>>

NoSignals ==
    [vol_pct_24h |-> None, price_pct_15_vs_1h |-> None, rsi_1h |-> None,
     macd_bull_cross |-> FALSE, last_close |-> None]

(* Fault: a zero denominator answered with 0 percent *)
VolPct24hZeroForNoBase(f1) ==
    IF LenDf(f1) >= 48
    THEN LET vol_last24 == SumSeq(LastN(Column(f1.bars, "volume"), 24))
             vol_prev24 == SumSeq(Window(Column(f1.bars, "volume"), 48, 24))
         IN  IF vol_prev24 > 0 THEN PctChange(vol_last24, vol_prev24) ELSE <<0, 1>>
    ELSE None

VolPct24h(f1) ==
    IF LenDf(f1) >= 48
    THEN LET vol_last24 == SumSeq(LastN(Column(f1.bars, "volume"), 24))
             vol_prev24 == SumSeq(Window(Column(f1.bars, "volume"), 48, 24))
         IN  IF vol_prev24 > 0 THEN PctChange(vol_last24, vol_prev24) ELSE None
    ELSE None

(* Fault: the division left outside the try, its error reaching the caller *)
PricePctUncaught(f1, have15, f15) ==
    IF have15 /\ ~IsEmpty(f15) /\ LenDf(f1) >= 2
    THEN LET close_15m    == f15.bars[LenDf(f15)].close
             close_1h_ago == f1.bars[LenDf(f1) - 1].close
         IN  IF close_1h_ago = 0 THEN <<"ZeroDivisionError">>
             ELSE PctChange(close_15m, close_1h_ago)
    ELSE None

(* Fault: the change taken against the latest hourly close *)
PricePctAgainstLastClose(f1, have15, f15) ==
    IF have15 /\ ~IsEmpty(f15) /\ LenDf(f1) >= 2
    THEN LET close_15m == f15.bars[LenDf(f15)].close
             close_1h  == f1.bars[LenDf(f1)].close
         IN  IF close_1h = 0 THEN None ELSE PctChange(close_15m, close_1h)
    ELSE None

PricePct15vs1h(f1, have15, f15) ==
    IF have15 /\ ~IsEmpty(f15) /\ LenDf(f1) >= 2
    THEN LET close_15m    == f15.bars[LenDf(f15)].close
             close_1h_ago == f1.bars[LenDf(f1) - 1].close
         IN  \* a zero divisor raises ZeroDivisionError, which is caught
             IF close_1h_ago = 0 THEN None
             ELSE PctChange(close_15m, close_1h_ago)
    ELSE None

Rsi1h(f1) == IF LenDf(f1) >= 20 THEN f1.rsi ELSE None

MacdBullCross(f1) ==
    /\ LenDf(f1) >= 35
    /\ Len(f1.macd) >= 2 /\ Len(f1.signal) >= 2
    /\ f1.macd[1] < f1.signal[1]
    /\ f1.macd[2] > f1.signal[2]

(* Fault: a results dictionary that lives on between calls, so that a      *)
(* field the call does not assign keeps the value of the call before       *)
ComputeSignalsOnSharedResults(have1, f1, have15, f15) ==
    LET results == IF fn_out = <<>> THEN NoSignals ELSE fn_out[Len(fn_out)].result
        keep(new, old) == IF new # None THEN new ELSE old
    IN  IF ~have1 \/ IsEmpty(f1) THEN results
        ELSE [vol_pct_24h        |-> keep(VolPct24h(f1), results.vol_pct_24h),
              price_pct_15_vs_1h |-> keep(PricePct15vs1h(f1, have15, f15),
                                          results.price_pct_15_vs_1h),
              rsi_1h             |-> keep(Rsi1h(f1), results.rsi_1h),
              macd_bull_cross    |-> IF LenDf(f1) >= 35 THEN MacdBullCross(f1)
                                     ELSE results.macd_bull_cross,
              last_close         |-> Some(f1.bars[LenDf(f1)].close)]

(* compute_signals on the frames themselves: have1 and have15 say whether  *)
(* df1h and df15m are frames rather than None                              *)
ComputeSignalsOn(have1, f1, have15, f15) ==
    IF ~have1 \/ IsEmpty(f1) THEN NoSignals
    ELSE [vol_pct_24h        |-> VolPct24h(f1),
          price_pct_15_vs_1h |-> PricePct15vs1h(f1, have15, f15),
          rsi_1h             |-> Rsi1h(f1),
          macd_bull_cross    |-> MacdBullCross(f1),
          last_close         |-> Some(f1.bars[LenDf(f1)].close)]

compute_signals(h1, h15) ==
    ComputeSignalsOn(h1 # NoFrame, Df1h(h1), h15 # NoFrame, Df15m(h15))

(* The signals of every pair of frames, computed once *)
Handles == ExchangeHandles1h \cup ExchangeHandles15m \cup CgHandles \cup {NoFrame}
SignalTable == [h1 \in Handles, h15 \in Handles |-> compute_signals(h1, h15)]

----------------------------------------------------------------------------
(* Exchanges and markets: the world scanner_supabase_http discovers *)

(* The EXCHANGES settings the model tries, and the exchanges ccxt knows *)
ExchangeSettings == {<<"binance", "nosuch", "okx">>, <<"okx">>}
CcxtExchanges == {"binance", "okx"}

build_exchange_instances(names) ==
    LET ok == SelectSeq(names, LAMBDA e : e \in CcxtExchanges)
    IN  IF ok = <<>> THEN <<"binance">> ELSE ok

(* A value of a market's info dictionary: absent, a number, a numeric      *)
(* string, or a string that is no number.                                  *)
Absent     == [k |-> "none", v |-> 0]
Num(n)     == [k |-> "num", v |-> n]
NumText(n) == [k |-> "str", v |-> n]
Garbage    == [k |-> "txt", v |-> 0]

NoInfo == [quoteVolume24h |-> Absent, quoteVolume |-> Absent,
           volume |-> Absent, quoteVolume24Hr |-> Absent]

(* ex.markets of each exchange, in dictionary order; a symbol is given as  *)
(* the list m_sym.split("/") produces.                                     *)
Markets(ex) ==
    IF ex = "binance"
    THEN << [sym |-> <<"X", "USDT">>, info |-> NoInfo],
            [sym |-> <<"XBTC">>,      info |-> NoInfo],
            [sym |-> <<"X", "USD">>,  info |-> [NoInfo EXCEPT !.quoteVolume = NumText(20000)]],
            [sym |-> <<"X", "BTC">>,  info |-> NoInfo],
            [sym |-> <<"W", "USDT">>, info |-> [NoInfo EXCEPT !.quoteVolume24h = Num(0),
                                                             !.volume = Num(9999)]] >>
    ELSE << [sym |-> <<"Y", "USDT">>, info |-> [NoInfo EXCEPT !.volume = Garbage]],
            [sym |-> <<"X", "USDT">>, info |-> [NoInfo EXCEPT !.quoteVolume = Num(5000)]],
            [sym |-> <<"Y", "USDT:USDT">>, info |-> NoInfo] >>

(* Python truthiness of an info value, and "a or b" *)
Truthy(x) == x.k = "txt" \/ x.k = "str" \/ (x.k = "num" /\ x.v # 0)
Or(a, b) == IF Truthy(a) THEN a ELSE b

VolumeEstimate(info) ==
    LET vol == Or(info.quoteVolume24h,
                  Or(info.quoteVolume, Or(info.volume, info.quoteVolume24Hr)))
    IN  IF Truthy(vol) THEN vol ELSE Absent

(* Fault: a quote filter that lets BTC pairs through *)
AcceptedQuotesWithBTC == {"USDT", "BUSD", "USD", "BTC"}

AcceptedQuotes == {"USDT", "BUSD", "USD"}

(* the candidate record built for one accepted market *)
Candidate(name, m) ==
    [exchange |-> name, market |-> m.sym, base |-> m.sym[1],
     quote |-> m.sym[2], volume |-> VolumeEstimate(m.info)]

MarketCandidates(name) ==
    LET keep(m) == Len(m.sym) >= 2 /\ m.sym[2] \in AcceptedQuotes
        kept    == SelectSeq(Markets(name), keep)
    IN  [i \in 1..Len(kept) |-> Candidate(name, kept[i])]

RECURSIVE CandidatesFrom(_, _)
CandidatesFrom(names, up) ==
    IF names = <<>> THEN <<>>
    ELSE (IF Head(names) \in up THEN MarketCandidates(Head(names)) ELSE <<>>)
         \o CandidatesFrom(Tail(names), up)

(* Fault: discovery that gives up at the first exchange whose load_markets *)
(* fails                                                                   *)
RECURSIVE CandidatesUntilFailure(_, _)
CandidatesUntilFailure(names, up) ==
    IF names = <<>> \/ Head(names) \notin up THEN <<>>
    ELSE MarketCandidates(Head(names)) \o CandidatesUntilFailure(Tail(names), up)

build_candidates_StopAtFailure(exchange_instances, up) ==
    CandidatesUntilFailure(exchange_instances, up)

(* up: the exchanges whose load_markets succeeds *)
build_candidates_from_exchanges(exchange_instances, up) ==
    CandidatesFrom(exchange_instances, up)

BaselineKeep(c) ==
    \/ c.volume.k = "none"
    \/ c.volume.k = "txt"                 \* float(vol) raises: kept
    \/ c.volume.v >= MIN_VOLUME_USD

BaselineFilter(cs) == SelectSeq(cs, BaselineKeep)

(* Fault: an asset key that tells the quotes of one base apart *)
CoinIdWithQuote(c) == <<c.exchange, c.base, c.quote>>

(* Fault: an asset key without the exchange *)
CoinIdBaseOnly(c) == <<c.base>>

CoinId(c) == <<c.exchange, c.base>>       \* f"{ex_name}:{base}"

----------------------------------------------------------------------------
(* The alerts ledger *)

Row(coin_id, alert_type, alert_time) ==
    [coin_id |-> coin_id, alert_type |-> alert_type, alert_time |-> alert_time]

(* The clock that stamps alert_time: the database's now() for the Supabase *)
(* variants (the insert carries no alert_time), the scanner's own clock    *)
(* for sqlite.                                                             *)
ServerClock == now + skew
StampClock == IF variant = "sqlite" THEN now ELSE ServerClock

(* The clock the cutoff is computed from: datetime.now() of the scanner in *)
(* scanner_supabase_http and scanner_coingecko_sqlite, the database's      *)
(* now() in scanner_supabase and scanner_supabase_old.                     *)
CutoffClock == IF variant \in {"http", "sqlite"} THEN now ELSE ServerClock

(* Fault: a query that forgets the coin_id filter *)
RecentRowsAnyKey(rows, coin_id, cutoff) ==
    SelectSeq(rows, LAMBDA r : r.alert_time >= cutoff)

(* SELECT ... WHERE coin_id = key AND alert_time >= cutoff *)
RecentRows(rows, coin_id, cutoff) ==
    SelectSeq(rows, LAMBDA r : r.coin_id = coin_id /\ r.alert_time >= cutoff)

(* Fault: a recency check that never finds a record *)
WasAlertedRecentNever(coin_id) == FALSE

(* was_alerted_recent when the read succeeds *)
WasAlertedRecent(coin_id) ==
    Len(RecentRows(ledger, coin_id, CutoffClock - Hours(DEDUPE_HOURS))) > 0

----------------------------------------------------------------------------
(* scanner_supabase_http.scan_once *)

Cand == filtered[idx]

ResetLocals ==
    /\ df1h' = NoFrame
    /\ df15m' = NoFrame
    /\ used_fallback' = FALSE
    /\ sig' = NoSignals
    /\ ind' = None
    /\ trace' = <<>>

(* A pass starts, each in a process of its own (python <script>.py): the   *)
(* first at time 0, a later one after a delay.                             *)
StartScan ==
    /\ pc \in {"idle", "crashed"}
    /\ passes < MaxPasses
    /\ work < MaxFetches
    /\ passes' = passes + 1
    /\ \E d \in Delays : now' = IF passes = 0 THEN now ELSE now + d
    /\ cg_map' = "None"
    /\ pc' = "discover"
    /\ candidates' = <<>>
    /\ filtered' = <<>>
    /\ markets' = <<>>
    /\ mapped' = <<>>
    /\ loaded' = {}
    /\ idx' = 0
    /\ alerts_sent' = <<>>
    /\ outbox' = <<>>
    /\ attempted' = {}
    /\ ResetLocals
    /\ UNCHANGED <<settings, bench, workers, read_failed, work, ledger>>

(* Lines 290-308: discovery and the baseline filter *)
HttpDiscover ==
    /\ variant = "http"
    /\ pc = "discover"
    /\ \E up \in SUBSET CcxtExchanges :
          /\ loaded' = up \cap {build_exchange_instances(EXCHANGES)[i] :
                                  i \in 1..Len(build_exchange_instances(EXCHANGES))}
          /\ candidates' =
                build_candidates_from_exchanges(build_exchange_instances(EXCHANGES), up)
          /\ filtered' = BaselineFilter(candidates')
    /\ pc' = "loop"
    /\ UNCHANGED <<settings, bench, workers, outbox, attempted, read_failed, now, passes, work, ledger, cg_map, markets, mapped,
                   idx, locals, alerts_sent>>

(* Fault: a fallback attempted for every candidate *)
NeedFallbackAlways(h1, h15) == TRUE

NeedFallback(h1, h15) ==
    IF h1 = NoFrame \/ h15 = NoFrame THEN TRUE
    ELSE LenDf(Df1h(h1)) < 48 \/ LenDf(Df1h(h1)) < 35

(* What the two fetch_ohlcv calls of a candidate may return: every hourly  *)
(* frame with a 15-minute frame, every 15-minute frame with an hourly      *)
(* frame, and a missing one on either side or both.                        *)
FetchChoices ==
    {<<h, "f_103">> : h \in ExchangeHandles1h}
    \cup {<<"h_pass", f>> : f \in ExchangeHandles15m}
    \cup {<<"h_pass_hi", "f_115">>, <<"h_pass_hi", "f_116">>}
    \cup {<<NoFrame, "f_103">>, <<"h_pass", NoFrame>>, <<"h_short40", NoFrame>>,
          <<NoFrame, NoFrame>>}

(* Lines 309-330: the next candidate's two exchange fetches *)
HttpFetch ==
    /\ variant = "http"
    /\ pc = "loop"
    /\ idx < Len(filtered)
    /\ work < MaxFetches
    /\ work' = work + 1
    /\ idx' = idx + 1
    /\ \E ch \in FetchChoices :
          /\ df1h' = ch[1]
          /\ df15m' = ch[2]
          /\ pc' = IF NeedFallback(ch[1], ch[2]) THEN "fallback" ELSE "evaluate"
    /\ used_fallback' = FALSE
    /\ sig' = NoSignals
    /\ trace' = <<"fetch">>
    /\ UNCHANGED <<settings, bench, workers, outbox, attempted, read_failed, now, passes, ledger, cg_map, lists, ind, alerts_sent>>

(* The symbols the CoinGecko coin list knows *)
CgSymbols == {"X"}

(* Fault: a symbol map that is requested again after a failed build *)
SymbolMapAfterRetry(listOk) ==
    IF cg_map = "built" THEN cg_map ELSE IF listOk THEN "built" ELSE "empty"

(* build_coingecko_symbol_map: the cache after the call, given whether a   *)
(* request made now would succeed                                          *)
SymbolMapAfter(listOk) ==
    IF cg_map # "None" THEN cg_map ELSE IF listOk THEN "built" ELSE "empty"

get_coingecko_id_for_symbol(symbol, listOk) ==
    IF SymbolMapAfter(listOk) = "built" /\ symbol \in CgSymbols
    THEN Some(symbol) ELSE None

(* Lines 332-346: the CoinGecko fallback.  cg is what                       *)
(* build_ohlcv_from_coingecko returns: NoFrame for (None, None), else the  *)
(* handle of the synthesized pair of frames.                               *)
HttpFallback ==
    /\ variant = "http"
    /\ pc = "fallback"
    /\ \E listOk \in BOOLEAN, cg \in CgHandles \cup {NoFrame} :
          LET cg_id == get_coingecko_id_for_symbol(Cand.base, listOk)
              got   == cg_id # None /\ cg # NoFrame
          IN  /\ cg_map' = SymbolMapAfter(listOk)
              /\ df1h' = IF got /\ (df1h = NoFrame \/ IsEmpty(Df1h(df1h)))
                         THEN cg ELSE df1h
              /\ df15m' = IF got /\ (df15m = NoFrame \/ IsEmpty(Df15m(df15m)))
                          THEN cg ELSE df15m
              /\ used_fallback' = got
              /\ trace' = trace \o <<"lookup">>
                            \o (IF cg_map = "None" THEN <<"list_request">> ELSE <<>>)
                            \o (IF cg_id # None THEN <<"chart_request">> ELSE <<>>)
    /\ pc' = "evaluate"
    /\ UNCHANGED <<settings, bench, workers, outbox, attempted, read_failed, now, passes, work, ledger, lists, idx, sig, ind,
                   alerts_sent>>

(* Fault: a rule evaluation without the MACD condition *)
RulesOkWithoutMacd(s) ==
    /\ PctGe(s.vol_pct_24h, VOL_CHANGE_THRESHOLD_PCT)
    /\ PctGe(s.price_pct_15_vs_1h, PRICE_MIN_PCT)
    /\ PctLe(s.price_pct_15_vs_1h, PRICE_MAX_PCT)
    /\ s.rsi_1h # None /\ RSI_LOW <= s.rsi_1h[1] /\ s.rsi_1h[1] <= RSI_HIGH

HasNull(s) ==
    s.vol_pct_24h = None \/ s.price_pct_15_vs_1h = None \/ s.rsi_1h = None

RulesOk(s) ==
    LET vol_ok   == PctGe(s.vol_pct_24h, VOL_CHANGE_THRESHOLD_PCT)
        price_ok == /\ PctGe(s.price_pct_15_vs_1h, PRICE_MIN_PCT)
                    /\ PctLe(s.price_pct_15_vs_1h, PRICE_MAX_PCT)
        rsi_ok   == s.rsi_1h # None /\ RSI_LOW <= s.rsi_1h[1] /\ s.rsi_1h[1] <= RSI_HIGH
        macd_ok  == s.macd_bull_cross
    IN  vol_ok /\ price_ok /\ rsi_ok /\ macd_ok

(* Fault: an evaluation without the skip on a missing metric, which lets   *)
(* the MACD flag alone decide for such a candidate                         *)
HttpEvaluateNoNullSkip ==
    /\ variant = "http"
    /\ pc = "evaluate"
    /\ IF df1h = NoFrame \/ df15m = NoFrame
       THEN /\ pc' = "next"
            /\ UNCHANGED <<sig, trace>>
       ELSE LET s == SignalTable[df1h, df15m] IN
            /\ sig' = s
            /\ trace' = trace \o <<"evaluate">>
            /\ pc' = IF HasNull(s) THEN (IF s.macd_bull_cross THEN "dedup" ELSE "next")
                     ELSE IF RulesOk(s) THEN "dedup" ELSE "next"
    /\ UNCHANGED <<settings, bench, workers, outbox, attempted, read_failed, now, passes, work, ledger, cg_map, lists, idx,
                   df1h, df15m, used_fallback, ind, alerts_sent>>

(* Fault: an evaluation that returns from scan_once when a frame is        *)
(* missing                                                                 *)
HttpEvaluateAbortOnMissing ==
    /\ variant = "http"
    /\ pc = "evaluate"
    /\ IF df1h = NoFrame \/ df15m = NoFrame
       THEN /\ pc' = "idle"
            /\ UNCHANGED <<sig, trace>>
       ELSE LET s == SignalTable[df1h, df15m] IN
            /\ sig' = s
            /\ trace' = trace \o <<"evaluate">>
            /\ pc' = IF HasNull(s) THEN "next"
                     ELSE IF RulesOk(s) THEN "dedup" ELSE "next"
    /\ UNCHANGED <<settings, bench, workers, outbox, attempted, read_failed, now, passes, work, ledger, cg_map, lists, idx,
                   df1h, df15m, used_fallback, ind, alerts_sent>>

(* Lines 348-364: skip on missing frames, compute the signals, skip on a   *)
(* missing metric, evaluate the four rules                                 *)
(* Fault: a candidate that passes the rules dispatched without the ledger  *)
(* being asked                                                             *)
HttpEvaluateThenDispatch ==
    /\ variant = "http"
    /\ pc = "evaluate"
    /\ IF df1h = NoFrame \/ df15m = NoFrame
       THEN /\ pc' = "next"
            /\ UNCHANGED <<sig, trace>>
       ELSE LET s == SignalTable[df1h, df15m] IN
            /\ sig' = s
            /\ trace' = trace \o <<"evaluate">>
            /\ pc' = IF HasNull(s) THEN "next"
                     ELSE IF RulesOk(s) THEN "dispatch" ELSE "next"
    /\ UNCHANGED <<settings, bench, workers, outbox, attempted, read_failed, now, passes, work, ledger, cg_map, lists, idx,
                   df1h, df15m, used_fallback, ind, alerts_sent>>

HttpEvaluate ==
    /\ variant = "http"
    /\ pc = "evaluate"
    /\ IF df1h = NoFrame \/ df15m = NoFrame
       THEN /\ pc' = "next"
            /\ UNCHANGED <<sig, trace>>
       ELSE LET s == SignalTable[df1h, df15m] IN
            /\ sig' = s
            /\ trace' = trace \o <<"evaluate">>
            /\ pc' = IF HasNull(s) THEN "next"
                     ELSE IF RulesOk(s) THEN "dedup" ELSE "next"
    /\ UNCHANGED <<settings, bench, workers, outbox, attempted, read_failed, now, passes, work, ledger, cg_map, lists, idx,
                   df1h, df15m, used_fallback, ind, alerts_sent>>

(* Fault: a recency check whose failed read suppresses the alert *)
HttpDedupFailSuppresses ==
    /\ variant = "http"
    /\ pc = "dedup"
    /\ \E readOk \in BOOLEAN :
          LET recent == readOk /\ WasAlertedRecent(CoinId(Cand)) IN
          /\ read_failed' = (read_failed \/ ~readOk)
          /\ trace' = trace \o <<IF ~readOk THEN "read_fail"
                                 ELSE IF recent THEN "read_recent" ELSE "read_clear">>
          /\ pc' = IF recent \/ ~readOk THEN "next" ELSE "dispatch"
    /\ UNCHANGED <<settings, bench, workers, outbox, attempted, now, passes, work, ledger, cg_map, lists, idx,
                   df1h, df15m, used_fallback, sig, ind, alerts_sent>>

(* Lines 365-368 with was_alerted_recent (56-67): a failed read answers    *)
(* False                                                                   *)
HttpDedup ==
    /\ variant = "http"
    /\ pc = "dedup"
    /\ \E readOk \in BOOLEAN :
          LET recent == readOk /\ WasAlertedRecent(CoinId(Cand)) IN
          /\ read_failed' = (read_failed \/ ~readOk)
          /\ trace' = trace \o <<IF ~readOk THEN "read_fail"
                                 ELSE IF recent THEN "read_recent" ELSE "read_clear">>
          /\ pc' = IF recent THEN "next" ELSE "dispatch"
    /\ UNCHANGED <<settings, bench, workers, outbox, attempted, now, passes, work, ledger, cg_map, lists, idx,
                   df1h, df15m, used_fallback, sig, ind, alerts_sent>>

(* Fault: a dispatch whose result is ignored *)
HttpDispatchRecordAnyway ==
    /\ variant = "http"
    /\ pc = "dispatch"
    /\ \E ok \in BOOLEAN :
          /\ trace' = trace \o <<IF ok THEN "send_ok" ELSE "send_fail">>
          /\ outbox' = IF ok THEN Append(outbox, CoinId(Cand)) ELSE outbox
          /\ attempted' = attempted \cup {CoinId(Cand)}
          /\ pc' = "record"
    /\ UNCHANGED <<settings, bench, workers, read_failed, now, passes, work, ledger, cg_map, lists, idx,
                   df1h, df15m, used_fallback, sig, ind, alerts_sent>>

(* Lines 369-382 with send_telegram (81-90) *)
HttpDispatch ==
    /\ variant = "http"
    /\ pc = "dispatch"
    /\ \E ok \in BOOLEAN :
          /\ trace' = trace \o <<IF ok THEN "send_ok" ELSE "send_fail">>
          /\ outbox' = IF ok THEN Append(outbox, CoinId(Cand)) ELSE outbox
          /\ attempted' = attempted \cup {CoinId(Cand)}
          /\ pc' = IF ok THEN "record" ELSE "next"
    /\ UNCHANGED <<settings, bench, workers, read_failed, now, passes, work, ledger, cg_map, lists, idx,
                   df1h, df15m, used_fallback, sig, ind, alerts_sent>>

(* Fault: a key that enters the returned list only when the insert worked *)
HttpRecordListOnlyIfWritten ==
    /\ variant = "http"
    /\ pc = "record"
    /\ \E writeOk \in BOOLEAN :
          /\ ledger' = IF writeOk
                       THEN Append(ledger, Row(CoinId(Cand),
                               IF used_fallback THEN "exchange_multi_tv_fallback"
                               ELSE "exchange_multi_tv", StampClock))
                       ELSE ledger
          /\ trace' = trace \o <<IF writeOk THEN "record_ok" ELSE "record_fail">>
          /\ alerts_sent' = IF writeOk THEN Append(alerts_sent, CoinId(Cand)) ELSE alerts_sent
    /\ pc' = "next"
    /\ UNCHANGED <<settings, bench, workers, outbox, attempted, read_failed, now, passes, work, cg_map, lists, idx,
                   df1h, df15m, used_fallback, sig, ind>>

(* Fault: a record that overwrites the key's earlier row *)
HttpRecordUpsert ==
    /\ variant = "http"
    /\ pc = "record"
    /\ \E writeOk \in BOOLEAN :
          LET row  == Row(CoinId(Cand),
                          IF used_fallback THEN "exchange_multi_tv_fallback"
                          ELSE "exchange_multi_tv", StampClock)
              mine == {i \in 1..Len(ledger) : ledger[i].coin_id = CoinId(Cand)}
          IN
          /\ ledger' = IF ~writeOk THEN ledger
                       ELSE IF mine = {} THEN Append(ledger, row)
                       ELSE [i \in 1..Len(ledger) |-> IF i \in mine THEN row ELSE ledger[i]]
          /\ trace' = trace \o <<IF writeOk THEN "record_ok" ELSE "record_fail">>
    /\ alerts_sent' = Append(alerts_sent, CoinId(Cand))
    /\ pc' = "next"
    /\ UNCHANGED <<settings, bench, workers, outbox, attempted, read_failed, now, passes, work, cg_map, lists, idx,
                   df1h, df15m, used_fallback, sig, ind>>

(* Fault: a record that always carries the exchange-only type *)
HttpRecordPlainType ==
    /\ variant = "http"
    /\ pc = "record"
    /\ \E writeOk \in BOOLEAN :
          /\ ledger' = IF writeOk
                       THEN Append(ledger, Row(CoinId(Cand), "exchange_multi_tv", StampClock))
                       ELSE ledger
          /\ trace' = trace \o <<IF writeOk THEN "record_ok" ELSE "record_fail">>
    /\ alerts_sent' = Append(alerts_sent, CoinId(Cand))
    /\ pc' = "next"
    /\ UNCHANGED <<settings, bench, workers, outbox, attempted, read_failed, now, passes, work, cg_map, lists, idx,
                   df1h, df15m, used_fallback, sig, ind>>

(* Fault: a failed insert that ends the pass *)
HttpRecordFailureEndsPass ==
    /\ variant = "http"
    /\ pc = "record"
    /\ \E writeOk \in BOOLEAN :
          /\ ledger' = IF writeOk
                       THEN Append(ledger, Row(CoinId(Cand),
                               IF used_fallback THEN "exchange_multi_tv_fallback"
                               ELSE "exchange_multi_tv", StampClock))
                       ELSE ledger
          /\ trace' = trace \o <<IF writeOk THEN "record_ok" ELSE "record_fail">>
          /\ alerts_sent' = IF writeOk THEN Append(alerts_sent, CoinId(Cand)) ELSE alerts_sent
          /\ pc' = IF writeOk THEN "next" ELSE "crashed"
    /\ UNCHANGED <<settings, bench, workers, outbox, attempted, read_failed, now, passes, work, cg_map, lists, idx,
                   df1h, df15m, used_fallback, sig, ind>>

(* Lines 383-384 with record_alert (69-78): a failed insert is swallowed *)
HttpRecord ==
    /\ variant = "http"
    /\ pc = "record"
    /\ \E writeOk \in BOOLEAN :
          /\ ledger' = IF writeOk
                       THEN Append(ledger, Row(CoinId(Cand),
                               IF used_fallback THEN "exchange_multi_tv_fallback"
                               ELSE "exchange_multi_tv", StampClock))
                       ELSE ledger
          /\ trace' = trace \o <<IF writeOk THEN "record_ok" ELSE "record_fail">>
    /\ alerts_sent' = Append(alerts_sent, CoinId(Cand))
    /\ pc' = "next"
    /\ UNCHANGED <<settings, bench, workers, outbox, attempted, read_failed, now, passes, work, cg_map, lists, idx,
                   df1h, df15m, used_fallback, sig, ind>>

(* The loop body is over for this candidate: on to the next iteration *)
HttpNext ==
    /\ variant = "http"
    /\ pc = "next"
    /\ pc' = "loop"
    /\ ResetLocals
    /\ UNCHANGED <<settings, bench, workers, outbox, attempted, read_failed, now, passes, work, ledger, cg_map, lists, idx,
                   alerts_sent>>

(* Lines 386-387: the loop is over, scan_once returns alerts_sent *)
HttpReturn ==
    /\ variant = "http"
    /\ pc = "loop"
    /\ idx = Len(filtered)
    /\ pc' = "idle"
    /\ UNCHANGED <<settings, bench, workers, outbox, attempted, read_failed, now, passes, work, ledger, cg_map, lists, idx,
                   locals, alerts_sent>>

----------------------------------------------------------------------------
(* CoinGecko /coins/markets entries: what the single-exchange and the      *)
(* CoinGecko-only variants scan                                            *)

Profile(pct, vol, cap) == [pct |-> pct, vol |-> vol, cap |-> cap]

(* price_change_percentage_24h, total_volume and market_cap of an entry;   *)
(* each may be null                                                        *)
Profiles ==
    { Profile(Some(20), Some(200000), Some(5)),      \* well over every threshold
      Profile(Some(15), Some(100000), Some(5)),      \* at sqlite's thresholds
      Profile(Some(14), Some(200000), Some(5)),      \* under sqlite's, over supabase's
      Profile(Some(10), Some(100000), Some(5)),      \* at supabase's thresholds
      Profile(Some(9),  Some(200000), Some(5)),      \* under every change threshold
      Profile(Some(20), Some(99999),  Some(5)),      \* under the volume threshold
      Profile(None,     Some(200000), Some(5)),      \* no 24h change
      Profile(Some(20), Some(200000), None) }        \* no market cap

SecondProfiles ==
    { Profile(Some(20), Some(200000), Some(5)), Profile(Some(9), Some(200000), Some(5)) }

Coin(id, symbol, p) ==
    [id |-> id, symbol |-> symbol, pct |-> p.pct, vol |-> p.vol, cap |-> p.cap]

(* The responses of /coins/markets the model tries: one entry, or two *)
MarketLists ==
    {<<Coin("a", "A", p)>> : p \in Profiles}
    \cup {<<Coin("a", "A", p), Coin("b", "B", q)>> : p \in Profiles, q \in SecondProfiles}

(* "x or 0" of an optional number *)
OrZero(x) == IF x = None THEN 0 ELSE x[1]

----------------------------------------------------------------------------
(* scanner_coingecko_sqlite.scan_once *)

SQ_MIN_24H_PCT == 15
SQ_MIN_VOLUME_USD == 100000

SqEligible(m) == OrZero(m.pct) >= SQ_MIN_24H_PCT /\ OrZero(m.vol) >= SQ_MIN_VOLUME_USD

(* Line 92: fetch_top_markets raises on a transport or status error, and   *)
(* nothing in scan_once catches it                                         *)
SqFetchMarkets ==
    /\ variant = "sqlite"
    /\ pc = "discover"
    /\ \/ /\ pc' = "crashed"
          /\ UNCHANGED markets
       \/ /\ markets' \in MarketLists
          /\ pc' = "loop"
    /\ UNCHANGED <<settings, bench, workers, outbox, attempted, read_failed, now, passes, work, ledger, cg_map, candidates, filtered, mapped,
                   loaded, idx, locals, alerts_sent>>

(* Lines 94-100: the next entry and the two thresholds *)
SqEntry ==
    /\ variant = "sqlite"
    /\ pc = "loop"
    /\ idx < Len(markets)
    /\ work < MaxFetches
    /\ work' = work + 1
    /\ idx' = idx + 1
    /\ trace' = <<"entry">>
    /\ pc' = IF SqEligible(markets[idx + 1]) THEN "dedup" ELSE "next"
    /\ UNCHANGED <<settings, bench, workers, outbox, attempted, read_failed, now, passes, ledger, cg_map, lists, df1h, df15m,
                   used_fallback, sig, ind, alerts_sent>>

(* Fault: an sqlite error of the read that leaves scan_once *)
SqDedupRaiseLeaves ==
    /\ variant = "sqlite"
    /\ pc = "dedup"
    /\ \E readOk \in BOOLEAN :
          LET recent == readOk /\ WasAlertedRecent(markets[idx].id) IN
          /\ read_failed' = (read_failed \/ ~readOk)
          /\ trace' = trace \o <<IF ~readOk THEN "read_raise"
                                 ELSE IF recent THEN "read_recent" ELSE "read_clear">>
          /\ pc' = IF ~readOk THEN "crashed"
                   ELSE IF recent THEN "next" ELSE "dispatch"
    /\ UNCHANGED <<settings, bench, workers, outbox, attempted, now, passes, work, ledger, cg_map, lists, idx,
                   df1h, df15m, used_fallback, sig, ind, alerts_sent>>

(* Lines 101-104 with was_alerted_recent (47-54): an sqlite error is       *)
(* raised into the entry's except clause                                   *)
SqDedup ==
    /\ variant = "sqlite"
    /\ pc = "dedup"
    /\ \E readOk \in BOOLEAN :
          LET recent == readOk /\ WasAlertedRecent(markets[idx].id) IN
          /\ read_failed' = (read_failed \/ ~readOk)
          /\ trace' = trace \o <<IF ~readOk THEN "read_raise"
                                 ELSE IF recent THEN "read_recent" ELSE "read_clear">>
          /\ pc' = IF readOk /\ ~recent THEN "dispatch" ELSE "next"
    /\ UNCHANGED <<settings, bench, workers, outbox, attempted, now, passes, work, ledger, cg_map, lists, idx,
                   df1h, df15m, used_fallback, sig, ind, alerts_sent>>

(* Lines 105-114: formatting market_cap with "," raises on a null, inside  *)
(* the try; then send_telegram (68-75)                                     *)
SqDispatch ==
    /\ variant = "sqlite"
    /\ pc = "dispatch"
    /\ IF markets[idx].cap = None
       THEN /\ trace' = trace \o <<"format_raise">>
            /\ pc' = "next"
            /\ UNCHANGED <<outbox, attempted>>
       ELSE \E ok \in BOOLEAN :
            /\ trace' = trace \o <<IF ok THEN "send_ok" ELSE "send_fail">>
            /\ pc' = IF ok THEN "record" ELSE "next"
            /\ outbox' = IF ok THEN Append(outbox, markets[idx].id) ELSE outbox
            /\ attempted' = attempted \cup {markets[idx].id}
    /\ UNCHANGED <<settings, bench, workers, read_failed, now, passes, work, ledger, cg_map, lists, idx,
                   df1h, df15m, used_fallback, sig, ind, alerts_sent>>

(* Lines 115-116 with record_alert (56-65): an sqlite error skips the      *)
(* append                                                                  *)
SqRecord ==
    /\ variant = "sqlite"
    /\ pc = "record"
    /\ \E writeOk \in BOOLEAN :
          IF writeOk
          THEN /\ ledger' = Append(ledger, Row(markets[idx].id, "24h_pct", StampClock))
               /\ alerts_sent' = Append(alerts_sent, markets[idx].id)
               /\ trace' = trace \o <<"record_ok">>
          ELSE /\ trace' = trace \o <<"record_raise">>
               /\ UNCHANGED <<ledger, alerts_sent>>
    /\ pc' = "next"
    /\ UNCHANGED <<settings, bench, workers, outbox, attempted, read_failed, now, passes, work, cg_map, lists, idx,
                   df1h, df15m, used_fallback, sig, ind>>

SqNext ==
    /\ variant = "sqlite"
    /\ pc = "next"
    /\ pc' = "loop"
    /\ ResetLocals
    /\ UNCHANGED <<settings, bench, workers, outbox, attempted, read_failed, now, passes, work, ledger, cg_map, lists, idx,
                   alerts_sent>>

(* Lines 120-121 *)
SqReturn ==
    /\ variant = "sqlite"
    /\ pc = "loop"
    /\ idx = Len(markets)
    /\ pc' = "idle"
    /\ UNCHANGED <<settings, bench, workers, outbox, attempted, read_failed, now, passes, work, ledger, cg_map, lists, idx,
                   locals, alerts_sent>>

----------------------------------------------------------------------------
(* scanner_supabase.scan_once, scanner_supabase_old.scan_once (the same    *)
(* statements) and scanner_mvp.scan_once                                   *)

SUPA_MIN_24H_PCT == 10
SUPA_MIN_VOLUME_USD == 100000
VOL_GAIN_THRESHOLD_PCT == 150
(* PRICE_BREAKOUT_PCT = 1.5, in tenths of a percent *)
PRICE_BREAKOUT_TENTHS == 15
RSI_LOWER == 20
RSI_UPPER == 85

SupaVariants == {"supabase", "supabase_old"}

(* The pairs Binance lists, as (base, quote) *)
BinanceMarkets == {<<"A", "BUSD">>, <<"A", "USD">>}

RECURSIVE map_to_exchange_symbols(_)
map_to_exchange_symbols(coin_list) ==
    IF coin_list = <<>> THEN <<>>
    ELSE LET coin == Head(coin_list)
             cands == <<<<coin.symbol, "USDT">>, <<coin.symbol, "BUSD">>,
                        <<coin.symbol, "USD">>>>
             hits == SelectSeq(cands, LAMBDA c : c \in BinanceMarkets)
         IN  (IF hits = <<>> THEN <<>> ELSE <<[coin |-> coin, symbol |-> Head(hits)]>>)
             \o map_to_exchange_symbols(Tail(coin_list))

SupaEligible(m) ==
    OrZero(m.pct) >= SUPA_MIN_24H_PCT /\ OrZero(m.vol) >= SUPA_MIN_VOLUME_USD

(* sorted(data, key = change or 0, reverse = True): a stable insertion *)
RECURSIVE InsertDesc(_, _)
InsertDesc(x, s) ==
    IF s = <<>> THEN <<x>>
    ELSE IF OrZero(Head(s).pct) >= OrZero(x.pct) THEN <<Head(s)>> \o InsertDesc(x, Tail(s))
    ELSE <<x>> \o s

RECURSIVE SortedDesc(_)
SortedDesc(s) ==
    IF s = <<>> THEN <<>>
    ELSE InsertDesc(s[Len(s)], SortedDesc(SubSeq(s, 1, Len(s) - 1)))

(* compute_indicators' result: None, or the indicator values; the breakout *)
(* is in tenths of a percent                                               *)
Ind(vol_gain_pct, breakout, rsi_15, rsi_1h) ==
    Some([vol_gain_pct |-> vol_gain_pct, breakout_pct |-> breakout,
          rsi_15 |-> rsi_15, rsi_1h |-> rsi_1h])

IndChoices ==
    { None,
      Ind(150, 15, Some(21), Some(84)),
      Ind(149, 15, Some(21), Some(84)),
      Ind(150, 14, Some(21), Some(84)),
      Ind(150, 15, Some(20), Some(84)),
      Ind(150, 15, Some(21), Some(85)),
      Ind(150, 15, None, Some(84)) }

IndRulesOk(i) ==
    LET vol_ok      == i.vol_gain_pct >= VOL_GAIN_THRESHOLD_PCT
        breakout_ok == i.breakout_pct >= PRICE_BREAKOUT_TENTHS
        rsi_ok      == /\ i.rsi_15 # None /\ i.rsi_1h # None
                       /\ i.rsi_15[1] > RSI_LOWER /\ i.rsi_1h[1] < RSI_UPPER
    IN  vol_ok /\ breakout_ok /\ rsi_ok

(* supabase 188-201: the market list (a failure is not caught), the early  *)
(* filter, the Binance mapping (a failure leaves mapped empty)             *)
SupaFetchMarkets ==
    /\ variant \in SupaVariants
    /\ pc = "discover"
    /\ \/ /\ pc' = "crashed"
          /\ UNCHANGED <<markets, mapped>>
       \/ /\ markets' \in MarketLists
          /\ \E loadOk \in BOOLEAN :
                mapped' = IF loadOk
                          THEN map_to_exchange_symbols(SelectSeq(markets', SupaEligible))
                          ELSE <<>>
          /\ pc' = "loop1"
    /\ UNCHANGED <<settings, bench, workers, outbox, attempted, read_failed, now, passes, work, ledger, cg_map, candidates, filtered, loaded, idx,
                   locals, alerts_sent>>

(* mvp 124-133: the market list, Binance's markets and the mapping; none   *)
(* of the three is inside a try                                            *)
MvpFetchMarkets ==
    /\ variant = "mvp"
    /\ pc = "discover"
    /\ \/ /\ pc' = "crashed"
          /\ UNCHANGED <<markets, mapped>>
       \/ /\ \E ms \in MarketLists :
                /\ markets' = SortedDesc(ms)
                /\ mapped' = map_to_exchange_symbols(SortedDesc(ms))
          /\ pc' = "loop1"
    /\ UNCHANGED <<settings, bench, workers, outbox, attempted, read_failed, now, passes, work, ledger, cg_map, candidates, filtered, loaded, idx,
                   locals, alerts_sent>>

(* supabase 203-214, mvp 134-148: the minute bars of the next mapped coin, *)
(* its indicators and the three rules; a missing frame and missing         *)
(* indicators both skip the coin                                           *)
Loop1Fetch ==
    /\ variant \in SupaVariants \cup {"mvp"}
    /\ pc = "loop1"
    /\ idx < Len(mapped)
    /\ work < MaxFetches
    /\ work' = work + 1
    /\ idx' = idx + 1
    /\ \E i \in IndChoices :
          /\ ind' = i
          /\ pc' = IF i = None \/ ~IndRulesOk(i[1]) THEN "next1"
                   ELSE IF variant = "mvp" THEN "dispatch1" ELSE "dedup1"
    /\ trace' = <<"fetch">>
    /\ UNCHANGED <<settings, bench, workers, outbox, attempted, read_failed, now, passes, ledger, cg_map, lists, df1h, df15m,
                   used_fallback, sig, alerts_sent>>

(* supabase 215-218 with was_alerted_recent (91-96): a database error is   *)
(* raised out of scan_once                                                 *)
Loop1Dedup ==
    /\ variant \in SupaVariants
    /\ pc = "dedup1"
    /\ \E readOk \in BOOLEAN :
          LET recent == readOk /\ WasAlertedRecent(mapped[idx].coin.id) IN
          /\ read_failed' = (read_failed \/ ~readOk)
          /\ trace' = trace \o <<IF ~readOk THEN "read_raise"
                                 ELSE IF recent THEN "read_recent" ELSE "read_clear">>
          /\ pc' = IF ~readOk THEN "crashed"
                   ELSE IF recent THEN "next1" ELSE "dispatch1"
    /\ UNCHANGED <<settings, bench, workers, outbox, attempted, now, passes, work, ledger, cg_map, lists, idx,
                   df1h, df15m, used_fallback, sig, ind, alerts_sent>>

(* supabase 219-230, mvp 149-161: the message formats the coin's 24h       *)
(* change with ":.2f", which raises on a null; then send_telegram.  mvp    *)
(* appends the exchange symbol here.                                       *)
Loop1Dispatch ==
    /\ variant \in SupaVariants \cup {"mvp"}
    /\ pc = "dispatch1"
    /\ IF mapped[idx].coin.pct = None
       THEN /\ trace' = trace \o <<"format_raise">>
            /\ pc' = "crashed"
            /\ UNCHANGED <<alerts_sent, outbox, attempted>>
       ELSE \E ok \in BOOLEAN :
            /\ trace' = trace \o <<IF ok THEN "send_ok" ELSE "send_fail">>
            /\ pc' = IF ok /\ variant # "mvp" THEN "record1" ELSE "next1"
            /\ alerts_sent' = IF ok /\ variant = "mvp"
                              THEN Append(alerts_sent, mapped[idx].symbol)
                              ELSE alerts_sent
            /\ outbox' = IF ok THEN Append(outbox, mapped[idx].coin.id) ELSE outbox
            /\ attempted' = attempted \cup {mapped[idx].coin.id}
    /\ UNCHANGED <<settings, bench, workers, read_failed, now, passes, work, ledger, cg_map, lists, idx,
                   df1h, df15m, used_fallback, sig, ind>>

(* Fault: a failed insert of the first loop that is swallowed *)
Loop1RecordSwallowed ==
    /\ variant \in SupaVariants
    /\ pc = "record1"
    /\ \E writeOk \in BOOLEAN :
          /\ ledger' = IF writeOk
                       THEN Append(ledger, Row(mapped[idx].coin.id, "indicator", StampClock))
                       ELSE ledger
          /\ alerts_sent' = IF writeOk THEN Append(alerts_sent, mapped[idx].coin.id)
                            ELSE alerts_sent
          /\ trace' = trace \o <<IF writeOk THEN "record_ok" ELSE "record_fail">>
          /\ pc' = "next1"
    /\ UNCHANGED <<settings, bench, workers, outbox, attempted, read_failed, now, passes, work, cg_map, lists, idx,
                   df1h, df15m, used_fallback, sig, ind>>

(* supabase 231-232 with record_alert (98-103) *)
Loop1Record ==
    /\ variant \in SupaVariants
    /\ pc = "record1"
    /\ \E writeOk \in BOOLEAN :
          IF writeOk
          THEN /\ ledger' = Append(ledger, Row(mapped[idx].coin.id, "indicator", StampClock))
               /\ alerts_sent' = Append(alerts_sent, mapped[idx].coin.id)
               /\ trace' = trace \o <<"record_ok">>
               /\ pc' = "next1"
          ELSE /\ trace' = trace \o <<"record_raise">>
               /\ pc' = "crashed"
               /\ UNCHANGED <<ledger, alerts_sent>>
    /\ UNCHANGED <<settings, bench, workers, outbox, attempted, read_failed, now, passes, work, cg_map, lists, idx,
                   df1h, df15m, used_fallback, sig, ind>>

Loop1Next ==
    /\ variant \in SupaVariants \cup {"mvp"}
    /\ pc = "next1"
    /\ pc' = "loop1"
    /\ ResetLocals
    /\ UNCHANGED <<settings, bench, workers, outbox, attempted, read_failed, now, passes, work, ledger, cg_map, lists, idx,
                   alerts_sent>>

(* The first loop is over: mvp returns (163), supabase goes on to the      *)
(* CoinGecko-only loop (234)                                               *)
Loop1Done ==
    /\ variant \in SupaVariants \cup {"mvp"}
    /\ pc = "loop1"
    /\ idx = Len(mapped)
    /\ pc' = IF variant = "mvp" THEN "idle" ELSE "loop2"
    /\ idx' = IF variant = "mvp" THEN idx ELSE 0
    /\ UNCHANGED <<settings, bench, workers, outbox, attempted, read_failed, now, passes, work, ledger, cg_map, lists, locals,
                   alerts_sent>>

(* supabase 234-240: the next market entry; one already alerted in this    *)
(* pass is skipped                                                         *)
Loop2Entry ==
    /\ variant \in SupaVariants
    /\ pc = "loop2"
    /\ idx < Len(markets)
    /\ work < MaxFetches
    /\ work' = work + 1
    /\ idx' = idx + 1
    /\ LET coin == markets[idx + 1]
           seen == \E j \in 1..Len(alerts_sent) : alerts_sent[j] = coin.id
       IN  /\ trace' = <<IF seen THEN "seen" ELSE "entry">>
           /\ pc' = IF ~seen /\ SupaEligible(coin) THEN "dedup2" ELSE "next2"
    /\ UNCHANGED <<settings, bench, workers, outbox, attempted, read_failed, now, passes, ledger, cg_map, lists, df1h, df15m,
                   used_fallback, sig, ind, alerts_sent>>

(* supabase 241-242 *)
Loop2Dedup ==
    /\ variant \in SupaVariants
    /\ pc = "dedup2"
    /\ \E readOk \in BOOLEAN :
          LET recent == readOk /\ WasAlertedRecent(markets[idx].id) IN
          /\ read_failed' = (read_failed \/ ~readOk)
          /\ trace' = trace \o <<IF ~readOk THEN "read_raise"
                                 ELSE IF recent THEN "read_recent" ELSE "read_clear">>
          /\ pc' = IF ~readOk THEN "crashed"
                   ELSE IF recent THEN "next2" ELSE "dispatch2"
    /\ UNCHANGED <<settings, bench, workers, outbox, attempted, now, passes, work, ledger, cg_map, lists, idx,
                   df1h, df15m, used_fallback, sig, ind, alerts_sent>>

(* supabase 243-251 *)
Loop2Dispatch ==
    /\ variant \in SupaVariants
    /\ pc = "dispatch2"
    /\ \E ok \in BOOLEAN :
          /\ trace' = trace \o <<IF ok THEN "send_ok" ELSE "send_fail">>
          /\ pc' = IF ok THEN "record2" ELSE "next2"
          /\ outbox' = IF ok THEN Append(outbox, markets[idx].id) ELSE outbox
          /\ attempted' = attempted \cup {markets[idx].id}
    /\ UNCHANGED <<settings, bench, workers, read_failed, now, passes, work, ledger, cg_map, lists, idx,
                   df1h, df15m, used_fallback, sig, ind, alerts_sent>>

(* supabase 252-253 *)
Loop2Record ==
    /\ variant \in SupaVariants
    /\ pc = "record2"
    /\ \E writeOk \in BOOLEAN :
          IF writeOk
          THEN /\ ledger' = Append(ledger, Row(markets[idx].id, "24h_pct", StampClock))
               /\ alerts_sent' = Append(alerts_sent, markets[idx].id)
               /\ trace' = trace \o <<"record_ok">>
               /\ pc' = "next2"
          ELSE /\ trace' = trace \o <<"record_raise">>
               /\ pc' = "crashed"
               /\ UNCHANGED <<ledger, alerts_sent>>
    /\ UNCHANGED <<settings, bench, workers, outbox, attempted, read_failed, now, passes, work, cg_map, lists, idx,
                   df1h, df15m, used_fallback, sig, ind>>

Loop2Next ==
    /\ variant \in SupaVariants
    /\ pc = "next2"
    /\ pc' = "loop2"
    /\ ResetLocals
    /\ UNCHANGED <<settings, bench, workers, outbox, attempted, read_failed, now, passes, work, ledger, cg_map, lists, idx,
                   alerts_sent>>

(* supabase 254-255 *)
SupaReturn ==
    /\ variant \in SupaVariants
    /\ pc = "loop2"
    /\ idx = Len(markets)
    /\ pc' = "idle"
    /\ UNCHANGED <<settings, bench, workers, outbox, attempted, read_failed, now, passes, work, ledger, cg_map, lists, idx,
                   locals, alerts_sent>>

----------------------------------------------------------------------------

(* The settings each script demands at its top, and what os.getenv finds  *)
(* for one of them: nothing, an empty string, or a value                   *)
RequiredSettings(v) ==
    CASE v = "http" -> {"TELEGRAM_BOT_TOKEN", "TELEGRAM_CHAT_ID",
                        "SUPABASE_URL", "SUPABASE_SERVICE_KEY"}
      [] v \in {"supabase", "supabase_old"} ->
                       {"TELEGRAM_BOT_TOKEN", "TELEGRAM_CHAT_ID", "SUPABASE_DB_URL"}
      [] OTHER -> {"TELEGRAM_BOT_TOKEN", "TELEGRAM_CHAT_ID"}

Configured(v) == [s \in RequiredSettings(v) |-> "set"]

Variants == {"http", "sqlite", "supabase", "supabase_old", "mvp"}

Init ==
    /\ variant \in Variants
    /\ env = Configured(variant)
    /\ conn = <<>>
    /\ pc = "idle"
    /\ now = 0
    /\ skew \in (IF variant \in {"sqlite", "mvp"} THEN {0} ELSE Skews)
    /\ EXCHANGES \in (IF variant = "http" THEN ExchangeSettings ELSE {<<>>})
    /\ passes = 0
    /\ work = 0
    /\ ledger = <<>>
    /\ cg_map = "None"
    /\ candidates = <<>>
    /\ filtered = <<>>
    /\ markets = <<>>
    /\ mapped = <<>>
    /\ loaded = {}
    /\ idx = 0
    /\ df1h = NoFrame
    /\ df15m = NoFrame
    /\ used_fallback = FALSE
    /\ sig = NoSignals
    /\ ind = None
    /\ trace = <<>>
    /\ alerts_sent = <<>>
    /\ read_failed = FALSE
    /\ outbox = <<>>
    /\ attempted = {}
    /\ fn_in = <<>>
    /\ fn_out = <<>>
    /\ workers = <<>>

Next ==
    \/ StartScan
    \/ HttpDiscover
    \/ HttpFetch
    \/ HttpFallback
    \/ HttpEvaluate
    \/ HttpDedup
    \/ HttpDispatch
    \/ HttpRecord
    \/ HttpNext
    \/ HttpReturn
    \/ SqFetchMarkets
    \/ SqEntry
    \/ SqDedup
    \/ SqDispatch
    \/ SqRecord
    \/ SqNext
    \/ SqReturn
    \/ SupaFetchMarkets
    \/ MvpFetchMarkets
    \/ Loop1Fetch
    \/ Loop1Dedup
    \/ Loop1Dispatch
    \/ Loop1Record
    \/ Loop1Next
    \/ Loop1Done
    \/ Loop2Entry
    \/ Loop2Dedup
    \/ Loop2Dispatch
    \/ Loop2Record
    \/ Loop2Next
    \/ SupaReturn

Spec == Init /\ [][Next]_vars

(***************************************************************************)
(* Start-up.  Each script reads its settings at the top of the module and  *)
(* raises SystemExit when one of them is missing or empty; only then does  *)
(* anything else run.                                                      *)
(***************************************************************************)
SettingKinds == {"unset", "empty", "set"}

BootInit ==
    /\ variant \in Variants
    /\ env \in [RequiredSettings(variant) -> SettingKinds]
    /\ conn = <<>>
    /\ pc = "boot"
    /\ now = 0
    /\ skew \in (IF variant \in {"sqlite", "mvp"} THEN {0} ELSE Skews)
    /\ EXCHANGES \in (IF variant = "http" THEN ExchangeSettings ELSE {<<>>})
    /\ passes = 0
    /\ work = 0
    /\ ledger = <<>>
    /\ cg_map = "None"
    /\ candidates = <<>>
    /\ filtered = <<>>
    /\ markets = <<>>
    /\ mapped = <<>>
    /\ loaded = {}
    /\ idx = 0
    /\ df1h = NoFrame
    /\ df15m = NoFrame
    /\ used_fallback = FALSE
    /\ sig = NoSignals
    /\ ind = None
    /\ trace = <<>>
    /\ alerts_sent = <<>>
    /\ read_failed = FALSE
    /\ outbox = <<>>
    /\ attempted = {}
    /\ fn_in = <<>>
    /\ fn_out = <<>>
    /\ workers = <<>>

(* Fault: a start-up that does not look at the settings *)
BootUnchecked ==
    /\ pc = "boot"
    /\ pc' = "idle"
    /\ UNCHANGED <<settings, now, passes, work, ledger, cg_map, lists, idx, locals,
                   alerts_sent, read_failed, outbox, attempted, bench, workers>>

(* "if not A or not B ...: raise SystemExit(...)": None and "" are falsy *)
Boot ==
    /\ pc = "boot"
    /\ pc' = IF \E s \in RequiredSettings(variant) : env[s] \in {"unset", "empty"}
             THEN "exited" ELSE "idle"
    /\ UNCHANGED <<settings, now, passes, work, ledger, cg_map, lists, idx, locals,
                   alerts_sent, read_failed, outbox, attempted, bench, workers>>

BootNext == Boot \/ Next

BootSpec == BootInit /\ [][BootNext]_vars

(***************************************************************************)
(* build_ohlcv_from_coingecko.  A market chart is two lists of samples,    *)
(* prices and total_volumes, each ascending in time.  Time is counted in   *)
(* chart ticks: a 15-minute bucket is BucketTicks15m ticks wide and an     *)
(* hourly bucket BucketTicks1h ticks wide.                                 *)
(***************************************************************************)
BucketTicks1h  == 8
BucketTicks15m == 2

MaxOf(S) == CHOOSE x \in S : \A y \in S : y <= x
MinOf(S) == CHOOSE x \in S : \A y \in S : x <= y

RECURSIVE Ascending(_)
Ascending(S) == IF S = {} THEN <<>>
                ELSE <<MinOf(S)>> \o Ascending(S \ {MinOf(S)})

Times(samples) == {samples[i].ts : i \in 1..Len(samples)}

(* the column of an outer join after ffill(): the value of the latest      *)
(* sample at or before t, NaN (None) when there is none                    *)
FilledAt(samples, t) ==
    LET upTo == {i \in 1..Len(samples) : samples[i].ts <= t}
    IN  IF upTo = {} THEN None ELSE Some(samples[MaxOf(upTo)].v)

(* dfp.join(dfv, how="outer").ffill().dropna() *)
JoinedFrame(prices, volumes) ==
    LET ts   == Ascending(Times(prices) \cup Times(volumes))
        rows == [i \in 1..Len(ts) |->
                    [ts |-> ts[i], price |-> FilledAt(prices, ts[i]),
                     volume |-> FilledAt(volumes, ts[i])]]
        full(r) == r.price # None /\ r.volume # None
        kept == SelectSeq(rows, full)
    IN  [i \in 1..Len(kept) |->
            [ts |-> kept[i].ts, price |-> kept[i].price[1],
             volume |-> kept[i].volume[1]]]

(* one resampled row: NaN prices (None) for a bucket without rows *)
BucketBar(rows, width, b) ==
    LET inb(r) == r.ts \div width = b
        mine == SelectSeq(rows, inb)
        ps   == {mine[i].price : i \in 1..Len(mine)}
    IN  IF mine = <<>> THEN None
        ELSE Some([bucket |-> b,
                   open   |-> mine[1].price,
                   high   |-> MaxOf(ps),
                   low    |-> MinOf(ps),
                   close  |-> mine[Len(mine)].price,
                   volume |-> SumSeq(Column(mine, "volume"))])

(* Fault: the high of a bar taken from its opening price *)
ResampleHighFromOpen(rows, width) ==
    IF rows = <<>> THEN <<>>
    ELSE LET first == rows[1].ts \div width
             last  == rows[Len(rows)].ts \div width
             all   == [i \in 1..(last - first + 1) |->
                          BucketBar(rows, width, first + i - 1)]
             notna(x) == x # None
             kept  == SelectSeq(all, notna)
         IN  [i \in 1..Len(kept) |-> [kept[i][1] EXCEPT !.high = kept[i][1].open]]

(* resample(width) with first/max/min/last/sum, then dropna() *)
Resample(rows, width) ==
    IF rows = <<>> THEN <<>>
    ELSE LET first == rows[1].ts \div width
             last  == rows[Len(rows)].ts \div width
             all   == [i \in 1..(last - first + 1) |->
                          BucketBar(rows, width, first + i - 1)]
             notna(x) == x # None
             kept  == SelectSeq(all, notna)
         IN  [i \in 1..Len(kept) |-> kept[i][1]]

(* data is the chart the two requests ended with: None when both failed *)
build_ohlcv_from_coingecko(data) ==
    IF data = None THEN None
    ELSE IF data[1].prices = <<>> THEN None
    ELSE LET df == JoinedFrame(data[1].prices, data[1].total_volumes)
         IN  Some([df1h  |-> Resample(df, BucketTicks1h),
                   df15m |-> Resample(df, BucketTicks15m)])

(***************************************************************************)
(* The functions on their own: one call of compute_signals, of the         *)
(* candidate construction followed by the baseline filter, or of           *)
(* build_ohlcv_from_coingecko, on an argument drawn from the sets below.   *)
(***************************************************************************)
BarCounts == {0, 1, 2, 19, 20, 34, 35, 47, 48, 49}
MacdPairs == {CrossUp, Touch, Above, <<0, 1>>}

HourlyFrames ==
    {MkFrame(MkBars(n, 7, vPrev, 250, cPrev, 101), rsi, macd, FlatSig) :
        n \in BarCounts, vPrev \in {0, 100}, cPrev \in {0, 100},
        rsi \in {None, Some(60)}, macd \in MacdPairs}

FineFrames ==
    {MkFrame(MkBars(n, 1, 1, 1, 102, 103), None, <<>>, <<>>) : n \in {0, 1, 8}}

SignalInputs ==
    {[fn |-> "compute_signals", have1 |-> h1, df1h |-> f1, have15 |-> h15, df15m |-> f15] :
        h1 \in BOOLEAN, f1 \in HourlyFrames, h15 \in BOOLEAN, f15 \in FineFrames}

InfoValues == {Absent, Num(0), Num(9999), Num(10000), NumText(20000), Garbage}

InfoInputs ==
    {[fn |-> "baseline",
      info |-> [quoteVolume24h |-> a, quoteVolume |-> b, volume |-> c, quoteVolume24Hr |-> d]] :
        a \in InfoValues, b \in InfoValues, c \in InfoValues, d \in InfoValues}

ChartTimes  == {0, 1, 3, 9}
ChartPrices == {1, 2}

(* a sample list from a choice of value per time, 0 for no sample *)
SamplesOf(g) ==
    LET ts == Ascending({t \in DOMAIN g : g[t] # 0})
    IN  [i \in 1..Len(ts) |-> [ts |-> ts[i], v |-> g[ts[i]]]]

ChartInputs ==
    {[fn |-> "build_ohlcv", data |-> None]} \cup
    {[fn |-> "build_ohlcv",
      data |-> Some([prices |-> SamplesOf(p), total_volumes |-> SamplesOf(v)])] :
        p \in [ChartTimes -> {0} \cup ChartPrices], v \in [ChartTimes -> {0, 10}]}

(* fetch_ohlcv.  resp is what exchange.fetch_ohlcv does: it raises, or it  *)
(* returns a list of rows.  A row has its timestamp, its close (None for a *)
(* null the exchange left in the row) and its number of columns.  A row    *)
(* that has not six columns makes the DataFrame constructor raise.         *)
fetch_ohlcv(resp) ==
    IF resp.raises THEN None
    ELSE IF resp.rows = <<>> THEN None
    ELSE IF \E i \in 1..Len(resp.rows) : resp.rows[i].columns # 6 THEN None
    ELSE Some(resp.rows)

OhlcvLimit == 2

OhlcvRows ==
    {[timestamp |-> t, close |-> c, columns |-> n] :
        t \in {1, 2}, c \in {None, Some(10)}, n \in {5, 6}}

OhlcvInputs ==
    {[fn |-> "fetch_ohlcv", limit |-> OhlcvLimit, resp |-> [raises |-> TRUE, rows |-> <<>>]]}
    \cup {[fn |-> "fetch_ohlcv", limit |-> OhlcvLimit, resp |-> [raises |-> FALSE, rows |-> rows]] :
            rows \in UNION {[1..n -> OhlcvRows] : n \in 0..(OhlcvLimit + 1)}}

program == <<settings, pc, now, passes, work, ledger, cg_map, lists, idx,
             locals, alerts_sent, read_failed, outbox, attempted, workers>>

FnInit ==
    /\ variant = "none"
    /\ env = Configured(variant)
    /\ conn = <<>>
    /\ pc = "idle"
    /\ now = 0
    /\ skew = 0
    /\ EXCHANGES = <<>>
    /\ passes = 0
    /\ work = 0
    /\ ledger = <<>>
    /\ cg_map = "None"
    /\ candidates = <<>>
    /\ filtered = <<>>
    /\ markets = <<>>
    /\ mapped = <<>>
    /\ loaded = {}
    /\ idx = 0
    /\ df1h = NoFrame
    /\ df15m = NoFrame
    /\ used_fallback = FALSE
    /\ sig = NoSignals
    /\ ind = None
    /\ trace = <<>>
    /\ alerts_sent = <<>>
    /\ read_failed = FALSE
    /\ outbox = <<>>
    /\ attempted = {}
    /\ workers = <<>>
    /\ fn_in \in SignalInputs \cup InfoInputs \cup ChartInputs \cup OhlcvInputs
    /\ fn_out = <<>>

CallComputeSignals ==
    /\ fn_in.fn = "compute_signals"
    /\ fn_out = <<>>
    /\ fn_out' = <<ComputeSignalsOn(fn_in.have1, fn_in.df1h, fn_in.have15, fn_in.df15m)>>
    /\ UNCHANGED <<program, fn_in, conn>>

(* one market through the candidate construction and the baseline filter *)
CallBaseline ==
    /\ fn_in.fn = "baseline"
    /\ fn_out = <<>>
    /\ fn_out' = <<BaselineFilter(
                     <<Candidate("binance", [sym |-> <<"X", "USDT">>, info |-> fn_in.info])>>)>>
    /\ UNCHANGED <<program, fn_in, conn>>

CallBuildOhlcv ==
    /\ fn_in.fn = "build_ohlcv"
    /\ fn_out = <<>>
    /\ fn_out' = <<build_ohlcv_from_coingecko(fn_in.data)>>
    /\ UNCHANGED <<program, fn_in, conn>>

CallFetchOhlcv ==
    /\ fn_in.fn = "fetch_ohlcv"
    /\ fn_out = <<>>
    /\ fn_out' = <<fetch_ohlcv(fn_in.resp)>>
    /\ UNCHANGED <<program, fn_in, conn>>

FnNext == CallComputeSignals \/ CallBaseline \/ CallBuildOhlcv \/ CallFetchOhlcv

FnSpec == FnInit /\ [][FnNext]_vars


----------------------------------------------------------------------------
(* Properties.  trace holds what has been done for the candidate in hand,  *)
(* so a state predicate over trace speaks of that candidate in that pass.  *)

InTrace(e) == \E i \in 1..Len(trace) : trace[i] = e
Happened(events) == \E i \in 1..Len(trace) : trace[i] \in events
LastEvent == IF trace = <<>> THEN "" ELSE trace[Len(trace)]

ReadEvents   == {"read_fail", "read_raise", "read_recent", "read_clear"}
SendEvents   == {"send_ok", "send_fail"}
RecordEvents == {"record_ok", "record_fail", "record_raise"}

LedgerVariants == {"http", "sqlite", "supabase", "supabase_old"}
AtDispatch == pc \in {"dispatch", "dispatch1", "dispatch2"}
AtRecord   == pc \in {"record", "record1", "record2"}
AtNext     == pc \in {"next", "next1", "next2"}

(* The asset key of the candidate in hand *)
CurKey ==
    CASE variant = "http"   -> CoinId(filtered[idx])
      [] variant = "sqlite" -> markets[idx].id
      [] OTHER -> IF trace[1] = "fetch" THEN mapped[idx].coin.id ELSE markets[idx].id

(* A metric the rules need is missing *)
Insufficient(s) ==
    s.vol_pct_24h = <<>> \/ s.price_pct_15_vs_1h = <<>> \/ s.rsi_1h = <<>>

(* The four default conditions, on exact percentages <<num, den>>, den > 0 *)
AllFour(s) ==
    /\ ~Insufficient(s)
    /\ s.vol_pct_24h[1] >= 150 * s.vol_pct_24h[2]
    /\ s.price_pct_15_vs_1h[1] >= 3 * s.price_pct_15_vs_1h[2]
    /\ s.price_pct_15_vs_1h[1] <= 15 * s.price_pct_15_vs_1h[2]
    /\ s.rsi_1h[1] >= 50 /\ s.rsi_1h[1] <= 70
    /\ s.macd_bull_cross = TRUE

(* The ledger holds a record of key k stamped within the last 6 hours of   *)
(* the clock the caller's cutoff is taken from                             *)
InWindow(k) ==
    \E i \in 1..Len(ledger) :
        /\ ledger[i].coin_id = k
        /\ CutoffClock - ledger[i].alert_time <= 6 * TicksPerHour

(* When, on the scanner's clock, a row was recorded *)
ScanTime(r) == r.alert_time - (StampClock - now)

(* How long before this pass the earlier passes recorded key k *)
PriorAges(k) ==
    {now - ScanTime(ledger[i]) :
        i \in {j \in 1..Len(ledger) : ledger[j].coin_id = k /\ ScanTime(ledger[j]) < now}}

(* The rows this pass has recorded for key k *)
SamePassRows(k) ==
    Cardinality({j \in 1..Len(ledger) : ledger[j].coin_id = k /\ ScanTime(ledger[j]) = now})

(* C1: in scanner_supabase_http.scan_once, a candidate whose signals lack  *)
(* vol_pct_24h, price_pct_15_vs_1h or rsi_1h goes straight to the next     *)
(* candidate: no ledger read, no dispatch and no record happens for it,    *)
(* whatever macd_bull_cross is.                                            *)
C1_NullMetricNoAlert ==
    (variant = "http" /\ InTrace("evaluate") /\ Insufficient(sig))
        => /\ pc = "next"
           /\ ~Happened(ReadEvents \cup SendEvents \cup RecordEvents)

C1_Witness ==
    /\ variant = "http" /\ pc = "next" /\ InTrace("evaluate")
    /\ sig.vol_pct_24h = <<>> /\ sig.macd_bull_cross = TRUE

(* C2: in scanner_supabase_http.scan_once, a candidate reaches the ledger  *)
(* check, the dispatch or the record only if vol_pct_24h >= 150,           *)
(* 3 <= price_pct_15_vs_1h <= 15, 50 <= rsi_1h <= 70 and macd_bull_cross   *)
(* all hold.                                                               *)
C2_AllFourRules ==
    (variant = "http" /\ (pc \in {"dedup", "dispatch", "record"}
                          \/ Happened(ReadEvents \cup SendEvents \cup RecordEvents)))
        => AllFour(sig)

C2_Witness ==
    /\ variant = "http" /\ InTrace("send_ok") /\ InTrace("record_ok")
    /\ sig.rsi_1h = <<70>>
    /\ sig.price_pct_15_vs_1h[1] = 15 * sig.price_pct_15_vs_1h[2]

(* C3: in the ledger-backed variants a step adds a row to the ledger or a  *)
(* key to the returned list, or reaches record_alert, only for a candidate *)
(* whose send_telegram has returned success, never for one whose           *)
(* send_telegram failed.                                                   *)
C3_RecordOnlyAfterDelivery ==
    [][ (/\ variant \in LedgerVariants
         /\ \/ ledger' # ledger
            \/ Len(alerts_sent') > Len(alerts_sent)
            \/ pc' \in {"record", "record1", "record2"}
            \/ \E i \in 1..Len(trace') : trace'[i] \in RecordEvents)
        => (/\ \E i \in 1..Len(trace') : trace'[i] = "send_ok"
            /\ \A i \in 1..Len(trace') : trace'[i] # "send_fail") ]_vars

C3_Witness ==
    /\ variant \in LedgerVariants /\ InTrace("send_fail") /\ AtNext
    /\ ledger = <<>> /\ alerts_sent = <<>>

(* C4: as long as no ledger read has failed, the ledger never holds two    *)
(* rows of one coin_id whose alert times are less than 6 hours apart.      *)
C4_NoTwoRecordsWithinWindow ==
    ~read_failed =>
        \A i, j \in 1..Len(ledger) :
            (i < j /\ ledger[i].coin_id = ledger[j].coin_id)
                => \/ ledger[j].alert_time - ledger[i].alert_time >= 6 * TicksPerHour
                   \/ ledger[i].alert_time - ledger[j].alert_time >= 6 * TicksPerHour

C6_SuppressThenRealert ==
    (variant \in LedgerVariants /\ Happened({"read_recent", "read_clear"}))
        => LET k == CurKey IN
           /\ (2 * TicksPerHour \in PriorAges(k))
                => (InTrace("read_recent") /\ ~Happened(SendEvents \cup RecordEvents))
           /\ (/\ PriorAges(k) # {}
               /\ \A a \in PriorAges(k) : a >= 7 * TicksPerHour
               /\ SamePassRows(k) = (IF InTrace("record_ok") THEN 1 ELSE 0)
               /\ ~InTrace("format_raise"))
                => /\ InTrace("read_clear")
                   /\ AtDispatch \/ Happened(SendEvents)
                   /\ InTrace("send_ok") => (AtRecord \/ Happened(RecordEvents))
                   /\ InTrace("record_ok") =>
                        /\ ledger[Len(ledger)].coin_id = k
                        /\ ledger[Len(ledger)].alert_time = StampClock
                        /\ \E i \in 1..Len(alerts_sent) : alerts_sent[i] = k

C6_Witness ==
    /\ variant \in {"http", "sqlite"} /\ passes = 2 /\ now = 7 * TicksPerHour
    /\ InTrace("read_clear") /\ InTrace("record_ok")
    /\ Len(ledger) = 2 /\ ledger[1].coin_id = ledger[2].coin_id

(* C7: in scanner_supabase_http a failed ledger read does not raise and    *)
(* does not suppress: the candidate goes on to the dispatch.               *)
C7_ReadFailureStillDispatches ==
    (variant = "http" /\ InTrace("read_fail"))
        => /\ pc \in {"dispatch", "record", "next"}
           /\ pc # "dispatch" => Happened(SendEvents)

C7_Witness ==
    /\ variant = "http" /\ InTrace("read_fail") /\ InTrace("send_ok")
    /\ ~InTrace("record_ok") /\ InWindow(CurKey)

(* C8, as amended: in scanner_supabase_http.scan_once no failure aborts    *)
(* the pass: scan_once never raises and returns only when every candidate  *)
(* of the filtered list has been taken up; a candidate with a missing      *)
(* frame or metric or a failed dispatch yields no alert and no record.     *)
C8_FailureNeverAborts ==
    variant = "http"
        => /\ pc # "crashed"
           /\ (pc = "idle" /\ passes > 0) => idx = Len(filtered)
           /\ (pc = "next" /\ (Insufficient(sig) \/ InTrace("send_fail")))
                => (~InTrace("send_ok") /\ ~Happened(RecordEvents))

C8_Witness ==
    /\ variant = "http" /\ passes = 1 /\ idx = 2
    /\ read_failed /\ ~InTrace("read_fail") /\ InTrace("evaluate")

(* C8 as stated: moreover a candidate during whose processing the ledger   *)
(* read, the ledger write or the dispatch failed yields no alert.          *)
C8_AsStated ==
    variant = "http"
        => /\ pc # "crashed"
           /\ (pc = "idle" /\ passes > 0) => idx = Len(filtered)
           /\ Happened({"read_fail", "record_fail", "send_fail"}) => ~InTrace("send_ok")

(* C9: in scanner_mvp, scanner_supabase and scanner_supabase_old no        *)
(* exception raised while a candidate is handled leaves scan_once.         *)
C9_NoExceptionLeavesLoop ==
    (variant \in {"mvp", "supabase", "supabase_old"} /\ pc = "crashed") => trace = <<>>

(* C10: an exchange whose load_markets failed contributes no candidate and *)
(* every exchange whose load_markets succeeded contributes its own; with   *)
(* no exchange loaded the list is empty and the pass ends with nothing     *)
(* dispatched, read or recorded.                                           *)
C10_UnreachableExchangeSkipped ==
    variant = "http"
        => /\ \A i \in 1..Len(filtered) : filtered[i].exchange \in loaded
           /\ \A e \in loaded : \E i \in 1..Len(filtered) : filtered[i].exchange = e
           /\ (passes > 0 /\ pc # "discover" /\ loaded = {})
                => /\ filtered = <<>> /\ alerts_sent = <<>> /\ trace = <<>>
                   /\ pc \in {"loop", "idle"}

C10_Witness ==
    /\ variant = "http" /\ passes = 1 /\ pc = "idle"
    /\ EXCHANGES[1] = "binance" /\ loaded = {"okx"}
    /\ Len(filtered) > 0 /\ idx = Len(filtered)

(* C11: every candidate of build_candidates_from_exchanges is a market of  *)
(* a loaded exchange whose symbol is base/quote with the quote USDT, BUSD  *)
(* or USD, and every such market of every loaded exchange is a candidate   *)
(* exactly once: one per exchange and pair.                                *)
C11_CandidatesHaveAcceptedQuote ==
    variant = "http"
        => /\ \A i \in 1..Len(candidates) :
                LET c == candidates[i] IN
                /\ c.quote \in {"USDT", "BUSD", "USD"}
                /\ Len(c.market) >= 2 /\ c.market[1] = c.base /\ c.market[2] = c.quote
                /\ c.exchange \in loaded
           /\ \A e \in loaded : \A j \in 1..Len(Markets(e)) :
                LET sym == Markets(e)[j].sym IN
                (Len(sym) >= 2 /\ sym[2] \in {"USDT", "BUSD", "USD"})
                    => Cardinality({i \in 1..Len(candidates) :
                            candidates[i].exchange = e /\ candidates[i].market = sym}) = 1

C11_Witness ==
    /\ variant = "http"
    /\ Cardinality({i \in 1..Len(candidates) : candidates[i].base = "X"}) = 3
    /\ \E i, j \in 1..Len(candidates) :
          /\ candidates[i].market = candidates[j].market
          /\ candidates[i].exchange = "binance" /\ candidates[j].exchange = "okx"

(* C13: in scanner_supabase_http.scan_once the fallback is entered, and a  *)
(* CoinGecko lookup or request made, only for a candidate whose exchange   *)
(* hourly frame is absent, whose exchange 15-minute frame is absent, or    *)
(* whose exchange hourly frame has fewer than 48 bars.                     *)
C13_FallbackOnlyWhenNeeded ==
    (variant = "http"
     /\ (pc = "fallback" \/ Happened({"lookup", "list_request", "chart_request"})))
        => \/ df1h \notin ExchangeHandles1h
           \/ df15m \notin ExchangeHandles15m
           \/ Len(Df1h(df1h).bars) < 48

C13_Witness ==
    /\ variant = "http" /\ InTrace("chart_request")
    /\ df1h = "h_short40" /\ df15m \in ExchangeHandles15m

(* C18: the list scanner_supabase_http.scan_once builds holds the keys of  *)
(* the messages delivered in the pass, in order: all of them outside the   *)
(* record step, all but the one just delivered inside it.                  *)
C18_ListIsDeliveredKeys ==
    variant = "http"
        => /\ pc = "record" => outbox = Append(alerts_sent, <<Cand.exchange, Cand.base>>)
           /\ pc # "record" => alerts_sent = outbox

C18_Witness ==
    /\ variant = "http" /\ pc = "idle" /\ passes = 1
    /\ alerts_sent = << <<"okx", "Y">> >> /\ ledger = <<>>

(* C19: a pass over one candidate that satisfies the four rules, with no   *)
(* earlier record of its key in the window and no failed read, send or     *)
(* insert, makes one dispatch call and one record call, and leaves one new *)
(* row, whose coin_id is <exchange>:<base>.                                *)
C19_OneDispatchOneRecord ==
    LET k == <<filtered[1].exchange, filtered[1].base>> IN
    (/\ variant = "http" /\ pc = "next" /\ Len(filtered) = 1
     /\ InTrace("evaluate") /\ AllFour(sig)
     /\ \A i \in 1..Len(ledger) :
            (ledger[i].coin_id = k /\ ScanTime(ledger[i]) < now)
                => CutoffClock - ledger[i].alert_time > 6 * TicksPerHour
     /\ ~Happened({"read_fail", "send_fail", "record_fail"}))
        => /\ Cardinality({i \in 1..Len(trace) : trace[i] \in SendEvents}) = 1
           /\ Cardinality({i \in 1..Len(trace) : trace[i] \in RecordEvents}) = 1
           /\ Cardinality({i \in 1..Len(ledger) : ScanTime(ledger[i]) = now}) = 1
           /\ ledger[Len(ledger)].coin_id = k
           /\ ledger[Len(ledger)].alert_time = StampClock

C19_Witness ==
    /\ variant = "http" /\ pc = "next" /\ Len(filtered) = 1
    /\ trace = <<"fetch", "evaluate", "read_clear", "send_ok", "record_ok">>
    /\ Len(ledger) = 1 /\ ledger[1].coin_id = <<"okx", "Y">>


(***************************************************************************)
(* compute_signals called again and again: fn_out keeps the calls made so  *)
(* far, each with its arguments and its result.                            *)
(***************************************************************************)
MaxCalls == 3

RepeatInputs ==
    {x \in SignalInputs :
        /\ x.have15 /\ Len(x.df15m.bars) = 1
        /\ x.df1h.rsi = Some(60) /\ x.df1h.macd = CrossUp
        /\ Len(x.df1h.bars) \in {2, 20, 48}
        /\ x.df1h.bars[1].close = 100
        /\ Len(x.df1h.bars) = 48 => x.df1h.bars[1].volume = 100}

RepeatInit ==
    /\ variant = "none"
    /\ env = Configured(variant)
    /\ conn = <<>>
    /\ pc = "idle"
    /\ now = 0
    /\ skew = 0
    /\ EXCHANGES = <<>>
    /\ passes = 0
    /\ work = 0
    /\ ledger = <<>>
    /\ cg_map = "None"
    /\ candidates = <<>>
    /\ filtered = <<>>
    /\ markets = <<>>
    /\ mapped = <<>>
    /\ loaded = {}
    /\ idx = 0
    /\ df1h = NoFrame
    /\ df15m = NoFrame
    /\ used_fallback = FALSE
    /\ sig = NoSignals
    /\ ind = None
    /\ trace = <<>>
    /\ alerts_sent = <<>>
    /\ read_failed = FALSE
    /\ outbox = <<>>
    /\ attempted = {}
    /\ workers = <<>>
    /\ fn_in = <<>>
    /\ fn_out = <<>>

CallAgain ==
    /\ Len(fn_out) < MaxCalls
    /\ \E x \in RepeatInputs :
          /\ fn_in' = x
          /\ fn_out' = Append(fn_out,
                 [args |-> x,
                  result |-> ComputeSignalsOn(x.have1, x.df1h, x.have15, x.df15m)])
    /\ UNCHANGED <<program, conn>>

RepeatNext == CallAgain

RepeatSpec == RepeatInit /\ [][RepeatNext]_vars

(***************************************************************************)
(* scanner_supabase_old.get_conn.  conn.infos is what getaddrinfo gave (no *)
(* entry when it raised), conn.i the entry the loop stands at,             *)
(* conn.attempt the failed attempts made on it, conn.log the connect calls *)
(* made so far with their outcome.                                         *)
(***************************************************************************)
IPV4_CONNECT_ATTEMPTS == 3
MaxInfos == 3
Addresses == {"10.0.0.1", "10.0.0.2"}

ConnInit ==
    /\ variant = "supabase_old"
    /\ env = Configured(variant)
    /\ conn \in {[infos |-> a, i |-> 1, attempt |-> 0, seen |-> {}, log |-> <<>>,
                 status |-> "ipv4"] :
                   a \in UNION {[1..n -> Addresses] : n \in 0..MaxInfos}}
    /\ pc = "idle"
    /\ now = 0
    /\ skew = 0
    /\ EXCHANGES = <<>>
    /\ passes = 0
    /\ work = 0
    /\ ledger = <<>>
    /\ cg_map = "None"
    /\ candidates = <<>>
    /\ filtered = <<>>
    /\ markets = <<>>
    /\ mapped = <<>>
    /\ loaded = {}
    /\ idx = 0
    /\ df1h = NoFrame
    /\ df15m = NoFrame
    /\ used_fallback = FALSE
    /\ sig = NoSignals
    /\ ind = None
    /\ trace = <<>>
    /\ alerts_sent = <<>>
    /\ read_failed = FALSE
    /\ outbox = <<>>
    /\ attempted = {}
    /\ workers = <<>>
    /\ fn_in = <<>>
    /\ fn_out = <<>>

(* "if addr in seen: continue" *)
ConnSkipSeen ==
    /\ conn.status = "ipv4"
    /\ conn.i <= Len(conn.infos)
    /\ conn.attempt = 0
    /\ conn.infos[conn.i] \in conn.seen
    /\ conn' = [conn EXCEPT !.i = @ + 1]
    /\ UNCHANGED <<program, fn_in, fn_out>>

(* Fault: an address that is never remembered as seen *)
ConnAttemptForgetful ==
    /\ conn.status = "ipv4"
    /\ conn.i <= Len(conn.infos)
    /\ conn.attempt > 0 \/ conn.infos[conn.i] \notin conn.seen
    /\ \E ok \in BOOLEAN :
          LET last == conn.attempt + 1 = IPV4_CONNECT_ATTEMPTS IN
          conn' = [conn EXCEPT
                      !.log = Append(@, [to |-> conn.infos[conn.i], ok |-> ok]),
                      !.status = IF ok THEN "connected" ELSE @,
                      !.attempt = IF ok \/ last THEN 0 ELSE @ + 1,
                      !.i = IF ~ok /\ last THEN @ + 1 ELSE @]
    /\ UNCHANGED <<program, fn_in, fn_out>>

(* one psycopg2.connect to the address in hand: lines 76-93 *)
ConnAttemptIpv4 ==
    /\ conn.status = "ipv4"
    /\ conn.i <= Len(conn.infos)
    /\ conn.attempt > 0 \/ conn.infos[conn.i] \notin conn.seen
    /\ \E ok \in BOOLEAN :
          LET last == conn.attempt + 1 = IPV4_CONNECT_ATTEMPTS IN
          conn' = [conn EXCEPT
                      !.log = Append(@, [to |-> conn.infos[conn.i], ok |-> ok]),
                      !.seen = @ \cup {conn.infos[conn.i]},
                      !.status = IF ok THEN "connected" ELSE @,
                      !.attempt = IF ok \/ last THEN 0 ELSE @ + 1,
                      !.i = IF ~ok /\ last THEN @ + 1 ELSE @]
    /\ UNCHANGED <<program, fn_in, fn_out>>

(* the loop is over: try_connect_ipv4 raises, get_conn catches (94-108) *)
ConnIpv4Exhausted ==
    /\ conn.status = "ipv4"
    /\ conn.i > Len(conn.infos)
    /\ conn' = [conn EXCEPT !.status = "dsn"]
    /\ UNCHANGED <<program, fn_in, fn_out>>

(* the direct connect with SUPABASE_DB_URL: lines 110-117 *)
ConnDsn ==
    /\ conn.status = "dsn"
    /\ \E ok \in BOOLEAN :
          conn' = [conn EXCEPT
                      !.log = Append(@, [to |-> "dsn", ok |-> ok]),
                      !.status = IF ok THEN "connected" ELSE "raised"]
    /\ UNCHANGED <<program, fn_in, fn_out>>

ConnNext == ConnSkipSeen \/ ConnAttemptIpv4 \/ ConnIpv4Exhausted \/ ConnDsn

ConnSpec == ConnInit /\ [][ConnNext]_vars

(***************************************************************************)
(* Two scanner processes on one ledger.  Each worker stands at a candidate *)
(* that has passed the rules and runs the rest of the loop body: the       *)
(* recency check, the dispatch, the record.  Nothing in the code takes a   *)
(* lock or opens a transaction around these three steps, so the steps of   *)
(* the two workers interleave freely.                                      *)
(***************************************************************************)
MaxRaceTicks == 2

RaceVariants == {"http", "sqlite"}

RaceKeys(v) == IF v = "http" THEN {<<"okx", "Y">>, <<"binance", "X">>}
               ELSE {"a", "b"}

Worker(key) == [pc |-> "dedup", key |-> key, trace |-> <<>>]

RaceInit ==
    /\ variant \in RaceVariants
    /\ env = Configured(variant)
    /\ conn = <<>>
    /\ pc = "idle"
    /\ now = 0
    /\ skew \in (IF variant = "sqlite" THEN {0} ELSE Skews)
    /\ EXCHANGES = <<>>
    /\ passes = 0
    /\ work = 0
    /\ ledger = <<>>
    /\ cg_map = "None"
    /\ candidates = <<>>
    /\ filtered = <<>>
    /\ markets = <<>>
    /\ mapped = <<>>
    /\ loaded = {}
    /\ idx = 0
    /\ df1h = NoFrame
    /\ df15m = NoFrame
    /\ used_fallback = FALSE
    /\ sig = NoSignals
    /\ ind = None
    /\ trace = <<>>
    /\ alerts_sent = <<>>
    /\ read_failed = FALSE
    /\ outbox = <<>>
    /\ attempted = {}
    /\ fn_in = <<>>
    /\ fn_out = <<>>
    /\ workers \in {<<Worker(k1), Worker(k2)>> : k1 \in RaceKeys(variant), k2 \in RaceKeys(variant)}

untouched == <<settings, bench, pc, passes, work, cg_map, lists, idx, locals, alerts_sent>>

(* was_alerted_recent of one worker.  http: a failed read answers False;   *)
(* sqlite: the error ends the entry                                        *)
WorkerDedup ==
    \E w \in DOMAIN workers : \E readOk \in BOOLEAN :
        LET me     == workers[w]
            recent == readOk /\ WasAlertedRecent(me.key)
            go     == IF variant = "http" THEN ~recent ELSE readOk /\ ~recent
        IN  /\ me.pc = "dedup"
            /\ workers' = [workers EXCEPT ![w] =
                   [me EXCEPT !.pc = IF go THEN "dispatch" ELSE "done",
                              !.trace = Append(@, IF ~readOk THEN "read_fail"
                                                  ELSE IF recent THEN "read_recent"
                                                  ELSE "read_clear")]]
            /\ read_failed' = (read_failed \/ ~readOk)
            /\ UNCHANGED <<untouched, now, ledger, outbox, attempted>>

(* send_telegram of one worker *)
WorkerDispatch ==
    \E w \in DOMAIN workers : \E ok \in BOOLEAN :
        LET me == workers[w]
        IN  /\ me.pc = "dispatch"
            /\ workers' = [workers EXCEPT ![w] =
                   [me EXCEPT !.pc = IF ok THEN "record" ELSE "done",
                              !.trace = Append(@, IF ok THEN "send_ok" ELSE "send_fail")]]
            /\ outbox' = IF ok THEN Append(outbox, me.key) ELSE outbox
            /\ attempted' = attempted \cup {me.key}
            /\ UNCHANGED <<untouched, now, ledger, read_failed>>

(* record_alert of one worker *)
WorkerRecord ==
    \E w \in DOMAIN workers : \E writeOk \in BOOLEAN :
        LET me == workers[w]
        IN  /\ me.pc = "record"
            /\ workers' = [workers EXCEPT ![w] =
                   [me EXCEPT !.pc = "done",
                              !.trace = Append(@, IF writeOk THEN "record_ok" ELSE "record_fail")]]
            /\ ledger' = IF writeOk
                         THEN Append(ledger, Row(me.key,
                                 IF variant = "http" THEN "exchange_multi_tv" ELSE "24h_pct",
                                 StampClock))
                         ELSE ledger
            /\ UNCHANGED <<untouched, now, outbox, attempted, read_failed>>

(* time passes while the workers run *)
RaceTick ==
    /\ now < MaxRaceTicks
    /\ \E w \in DOMAIN workers : workers[w].pc # "done"
    /\ now' = now + 1
    /\ UNCHANGED <<untouched, ledger, outbox, attempted, read_failed, workers>>

RaceNext == WorkerDedup \/ WorkerDispatch \/ WorkerRecord \/ RaceTick

RaceSpec == RaceInit /\ [][RaceNext]_vars

(***************************************************************************)
(* Properties of the functions on their own (FnSpec).                      *)
(***************************************************************************)
Called(name) == variant = "none" /\ fn_in.fn = name /\ fn_out # <<>>

InfoKeys == {"quoteVolume24h", "quoteVolume", "volume", "quoteVolume24Hr"}

RECURSIVE VolumeSum(_, _, _)
VolumeSum(bars, lo, hi) ==
    IF lo > hi THEN 0 ELSE bars[lo].volume + VolumeSum(bars, lo + 1, hi)

(* C12: a candidate whose market metadata exposes a numeric volume         *)
(* estimate is kept exactly when the estimate is at least MIN_VOLUME_USD   *)
(* (stated for metadata whose exposed values all lie on the same side of   *)
(* the minimum), and a candidate with no estimate is kept.                 *)
C12_KeptIffEstimateAtLeastMinimum ==
    Called("baseline") =>
        LET info    == fn_in.info
            exposed == {k \in InfoKeys : info[k].k # "none"}
            numeric == \A k \in exposed : info[k].k \in {"num", "str"}
            kept    == fn_out[1] # <<>>
        IN  /\ exposed = {} => kept
            /\ (exposed # {} /\ numeric /\ \A k \in exposed : info[k].v >= MIN_VOLUME_USD)
                   => kept
            /\ (exposed # {} /\ numeric /\ \A k \in exposed : info[k].v < MIN_VOLUME_USD)
                   => ~kept

(* C14: macd_bull_cross is true exactly when there are at least 35 hourly  *)
(* bars, the previous MACD value is strictly below the previous signal     *)
(* value and the current MACD value is at or above the current signal      *)
(* value.                                                                  *)
C14_BullCrossIffCrossing ==
    Called("compute_signals") =>
        LET f == fn_in.df1h
        IN  fn_out[1].macd_bull_cross =
                (/\ fn_in.have1
                 /\ Len(f.bars) >= 35
                 /\ f.macd[1] < f.signal[1]
                 /\ f.macd[2] >= f.signal[2])

(* C15: vol_pct_24h is non-null only when there are at least 48 hourly     *)
(* bars and the volumes of bars -48..-25 sum to more than zero; it is then *)
(* (sum of the last 24 volumes / that sum - 1) * 100.                      *)
C15_VolumeChangeOnlyWithBase ==
    Called("compute_signals") =>
        LET bars == fn_in.df1h.bars
            n    == Len(bars)
            prev == VolumeSum(bars, n - 47, n - 24)
            last == VolumeSum(bars, n - 23, n)
            v    == fn_out[1].vol_pct_24h
        IN  v # None =>
                /\ fn_in.have1 /\ n >= 48 /\ prev > 0
                /\ v[1] * prev = (last - prev) * 100 * v[2]

C15_Witness ==
    /\ Called("compute_signals")
    /\ Len(fn_in.df1h.bars) = 48
    /\ fn_out[1].vol_pct_24h = <<(250 * 24 - 100 * 24) * 100, 100 * 24>>

(* C16: price_pct_15_vs_1h is non-null only when there is at least one     *)
(* fine bar and at least two hourly bars, and is then the change of the    *)
(* latest fine close against the second-to-last hourly close; last_close   *)
(* is the latest hourly close when there is an hourly bar, else null.      *)
C16_PriceChangeAndLastClose ==
    Called("compute_signals") =>
        LET h  == fn_in.df1h.bars
            q  == fn_in.df15m.bars
            p  == fn_out[1].price_pct_15_vs_1h
            lc == fn_out[1].last_close
        IN  /\ p # None =>
                /\ fn_in.have15 /\ Len(q) >= 1 /\ fn_in.have1 /\ Len(h) >= 2
                /\ p[1] * h[Len(h) - 1].close
                     = (q[Len(q)].close - h[Len(h) - 1].close) * 100 * p[2]
            /\ IF fn_in.have1 /\ Len(h) >= 1
               THEN lc = <<h[Len(h)].close>>
               ELSE lc = None

C16_Witness ==
    /\ Called("compute_signals")
    /\ Len(fn_in.df1h.bars) = 2 /\ Len(fn_in.df15m.bars) = 1
    /\ fn_out[1].price_pct_15_vs_1h = <<300, 100>>
    /\ fn_out[1].last_close = <<101>>

(* the rows of the aligned series that fall into bucket b of the given     *)
(* width: the times at or after the first price and the first volume       *)
AlignedTimes(data, width, b) ==
    {t \in Times(data.prices) \cup Times(data.total_volumes) :
        /\ t \div width = b
        /\ \E i \in 1..Len(data.prices) : data.prices[i].ts <= t
        /\ \E i \in 1..Len(data.total_volumes) : data.total_volumes[i].ts <= t}

(* the price the aligned series carries at time t *)
AlignedPrice(data, t) ==
    LET i == CHOOSE i \in 1..Len(data.prices) :
                 /\ data.prices[i].ts <= t
                 /\ \A j \in 1..Len(data.prices) :
                        data.prices[j].ts <= t => data.prices[j].ts <= data.prices[i].ts
    IN  data.prices[i].v

WellFormedBars(data, bars, width) ==
    \A i \in 1..Len(bars) :
        LET bar == bars[i]
            ts  == AlignedTimes(data, width, bar.bucket)
        IN  /\ bar.high >= bar.low /\ bar.high >= bar.open /\ bar.high >= bar.close
            /\ bar.low <= bar.open /\ bar.low <= bar.close
            /\ ts # {}
            /\ bar.open = AlignedPrice(data, MinOf(ts))
            /\ bar.close = AlignedPrice(data, MaxOf(ts))
            /\ \A j \in 1..Len(bars) : j < i => bars[j].bucket < bar.bucket

(* C17: every bar build_ohlcv_from_coingecko returns has high >= low,      *)
(* high >= open, high >= close, low <= open and low <= close, opens with   *)
(* the first and closes with the last price of its bucket in the aligned   *)
(* price/volume series, and no bar stands for a bucket without a sample.   *)
C17_SynthesizedBarsWellFormed ==
    (Called("build_ohlcv") /\ fn_out[1] # None) =>
        /\ WellFormedBars(fn_in.data[1], fn_out[1][1].df1h, BucketTicks1h)
        /\ WellFormedBars(fn_in.data[1], fn_out[1][1].df15m, BucketTicks15m)

C17_Witness ==
    /\ Called("build_ohlcv") /\ fn_out[1] # None
    /\ Len(fn_out[1][1].df1h) = 2
    /\ fn_out[1][1].df1h[1].open < fn_out[1][1].df1h[1].high
    /\ fn_out[1][1].df1h[1].close = fn_out[1][1].df1h[1].low
    /\ Len(fn_out[1][1].df15m) = 3
    /\ fn_out[1][1].df15m[3].bucket = 4


(***************************************************************************)
(* Properties of two workers on one ledger (RaceSpec).                     *)
(***************************************************************************)
Deliveries(key) == Len(SelectSeq(outbox, LAMBDA k : k = key))

WorkerFaults ==
    \E w \in DOMAIN workers : \E i \in 1..Len(workers[w].trace) :
        workers[w].trace[i] \in {"read_fail", "record_fail"}

(* C20: when two workers process the same key at the same time, with every *)
(* ledger read and write succeeding, at most one of them dispatches for    *)
(* that key within the window.                                             *)
C20_OneDispatchPerKeyAmongWorkers ==
    (variant \in RaceVariants /\ workers # <<>> /\ ~WorkerFaults) =>
        \A w \in DOMAIN workers : Deliveries(workers[w].key) <= 1

(***************************************************************************)
(* Properties settled on the scan passes (Spec), continued.                *)
(***************************************************************************)

(* C21: the recency check measures a record's age on the clock that        *)
(* stamped it: when the read succeeds, was_alerted_recent answers true     *)
(* exactly when the ledger holds a record of the key whose alert time lies *)
(* within the last 6 hours of the ledger's write-time clock.               *)
C21_RecencyOnStampingClock ==
    (variant \in LedgerVariants /\ LastEvent \in {"read_recent", "read_clear"})
        => (LastEvent = "read_recent" <=>
               \E i \in 1..Len(ledger) :
                   /\ ledger[i].coin_id = CurKey
                   /\ StampClock - ledger[i].alert_time <= 6 * TicksPerHour)

(* C26: in scanner_supabase_http.scan_once, once the CoinGecko synthesis   *)
(* has succeeded for a candidate, its signals are not computed on an       *)
(* exchange hourly frame of fewer than 48 bars.                            *)
C26_ShortHourlyReplacedBySynthesis ==
    (variant = "http" /\ used_fallback /\ InTrace("evaluate"))
        => (df1h \in ExchangeHandles1h => LenDf(Df1h(df1h)) >= 48)

(* the place of an event in the per-candidate sequence of steps *)
StepRank(e) ==
    CASE e = "fetch"         -> 1
      [] e = "lookup"        -> 2
      [] e = "list_request"  -> 3
      [] e = "chart_request" -> 4
      [] e = "evaluate"      -> 5
      [] e \in ReadEvents    -> 6
      [] e \in SendEvents    -> 7
      [] OTHER               -> 8

(* C28: in a pass of scanner_supabase_http.scan_once the steps of a        *)
(* candidate come in the order fetch, fallback, evaluate, dedup check,     *)
(* dispatch, record; the ledger is asked only about a candidate that       *)
(* passed all rules, the dispatch follows a check that did not answer      *)
(* 'recent', the record follows a successful dispatch, candidate work      *)
(* starts only after discovery and the pass returns only after the last    *)
(* candidate.                                                              *)
C28_StepsInOrder ==
    variant = "http" =>
        /\ \A i, j \in 1..Len(trace) : i < j => StepRank(trace[i]) < StepRank(trace[j])
        /\ trace # <<>> => trace[1] = "fetch"
        /\ (pc = "dedup" \/ Happened(ReadEvents)) => (InTrace("evaluate") /\ AllFour(sig))
        /\ (pc = "dispatch" \/ Happened(SendEvents))
              => (Happened({"read_clear", "read_fail"}) /\ ~InTrace("read_recent"))
        /\ (pc = "record" \/ Happened(RecordEvents)) => InTrace("send_ok")
        /\ (trace # <<>> \/ idx > 0)
              => (/\ pc \notin {"idle", "discover"} \/ (pc = "idle" /\ trace = <<>>)
                  /\ idx <= Len(filtered)
                  /\ filtered = BaselineFilter(candidates))
        /\ (pc = "idle" /\ passes > 0) => (idx = Len(filtered) /\ trace = <<>>)

C28_Witness ==
    /\ variant = "http" /\ pc = "next"
    /\ trace = <<"fetch", "lookup", "list_request", "chart_request", "evaluate",
                 "read_clear", "send_ok", "record_ok">>

(* every delivery of this pass, the one being recorded aside, has put its  *)
(* row into the ledger                                                     *)
WritesWorked ==
    Cardinality({j \in 1..Len(ledger) : ScanTime(ledger[j]) = now})
        = Len(outbox) - (IF pc = "record" THEN 1 ELSE 0)

(* C30: in a pass of scanner_supabase_http.scan_once whose ledger reads    *)
(* and writes work, no two dispatches carry the same exchange and base: a  *)
(* later pair of a base already dispatched on that exchange is answered    *)
(* 'recent' by the dedup check and is not dispatched.                      *)
C30_OneDispatchPerKeyInPass ==
    (variant = "http" /\ ~read_failed /\ WritesWorked) =>
        /\ \A i, j \in 1..Len(outbox) :
              i < j => <<outbox[i][1], outbox[i][2]>> # <<outbox[j][1], outbox[j][2]>>
        /\ pc = "dispatch" =>
              \A i \in 1..Len(outbox) :
                  <<outbox[i][1], outbox[i][2]>> # <<Cand.exchange, Cand.base>>

C30_Witness ==
    /\ variant = "http" /\ ~read_failed /\ pc = "next" /\ idx = 2
    /\ filtered[1].market = <<"X", "USDT">> /\ filtered[2].market = <<"X", "USD">>
    /\ filtered[1].exchange = filtered[2].exchange
    /\ AllFour(sig) /\ LastEvent = "read_recent"
    /\ outbox = << <<"binance", "X">> >>
    /\ Len(ledger) = 1

(* C24: the ledger is append-only: a step leaves the ledger as it is or    *)
(* appends exactly one row behind the unchanged existing rows, the latter  *)
(* only in record_alert; the step of was_alerted_recent leaves the ledger  *)
(* as it is.                                                               *)
C24_LedgerAppendOnly ==
    [][ /\ \/ ledger' = ledger
           \/ /\ AtRecord
              /\ Len(ledger') = Len(ledger) + 1
              /\ SubSeq(ledger', 1, Len(ledger)) = ledger
        /\ pc \in {"dedup", "dedup1", "dedup2"} => ledger' = ledger ]_vars

C24_Witness ==
    /\ variant \in LedgerVariants /\ passes = 2 /\ AtNext /\ LastEvent = "record_ok"
    /\ Len(ledger) = 2
    /\ ledger[1].coin_id = ledger[2].coin_id
    /\ ledger[1].alert_time < ledger[2].alert_time

(***************************************************************************)
(* Properties of the functions on their own (FnSpec), continued.           *)
(***************************************************************************)

(* C22: fetch_ohlcv returns None, or a sequence of complete rows in        *)
(* strictly ascending timestamp order (so without duplicates) of at most   *)
(* limit bars.                                                             *)
C22_FetchReturnsNoneOrWellFormed ==
    (Called("fetch_ohlcv") /\ fn_out[1] # None) =>
        LET bars == fn_out[1][1]
        IN  /\ Len(bars) <= fn_in.limit
            /\ \A i \in 1..Len(bars) : bars[i].columns = 6 /\ bars[i].close # None
            /\ \A i, j \in 1..Len(bars) : i < j => bars[i].timestamp < bars[j].timestamp

(* C27: compute_signals answers every input with a result whose fields are *)
(* null exactly where the field's precondition fails or its computation    *)
(* fails: vol_pct_24h without 48 hourly bars or with a zero earlier sum,   *)
(* price_pct_15_vs_1h without a fine bar, without two hourly bars or with  *)
(* a zero reference close, rsi_1h without 20 hourly bars or with an        *)
(* undefined RSI, last_close without an hourly bar; macd_bull_cross is     *)
(* false without 35 hourly bars.  The other fields are computed.           *)
C27_NullExactlyWhereUnmet ==
    Called("compute_signals") =>
        LET h   == fn_in.df1h.bars
            q   == fn_in.df15m.bars
            n   == Len(h)
            out == fn_out[1]
        IN  /\ DOMAIN out = {"vol_pct_24h", "price_pct_15_vs_1h", "rsi_1h",
                             "macd_bull_cross", "last_close"}
            /\ out.vol_pct_24h # None <=>
                  (fn_in.have1 /\ n >= 48 /\ VolumeSum(h, n - 47, n - 24) > 0)
            /\ out.price_pct_15_vs_1h # None <=>
                  (fn_in.have15 /\ Len(q) >= 1 /\ fn_in.have1 /\ n >= 2
                   /\ h[n - 1].close # 0)
            /\ out.rsi_1h # None <=> (fn_in.have1 /\ n >= 20 /\ fn_in.df1h.rsi # None)
            /\ out.last_close # None <=> (fn_in.have1 /\ n >= 1)
            /\ out.macd_bull_cross \in BOOLEAN
            /\ out.macd_bull_cross => (fn_in.have1 /\ n >= 35)

C27_Witness ==
    /\ Called("compute_signals")
    /\ fn_in.have15 /\ Len(fn_in.df15m.bars) = 1
    /\ Len(fn_in.df1h.bars) = 20 /\ fn_in.df1h.bars[19].close = 0
    /\ fn_out[1] = [vol_pct_24h |-> None, price_pct_15_vs_1h |-> None, rsi_1h |-> <<60>>,
                    macd_bull_cross |-> FALSE, last_close |-> <<101>>]

(***************************************************************************)
(* Properties of repeated calls (RepeatSpec).                              *)
(***************************************************************************)

C23_MissingSettingStopsAtStartup ==
    /\ DOMAIN env =
          {"TELEGRAM_BOT_TOKEN", "TELEGRAM_CHAT_ID"}
          \cup (IF variant = "http" THEN {"SUPABASE_URL", "SUPABASE_SERVICE_KEY"} ELSE {})
          \cup (IF variant \in {"supabase", "supabase_old"} THEN {"SUPABASE_DB_URL"} ELSE {})
    /\ (\E s \in DOMAIN env : env[s] # "set") =>
          /\ pc \in {"boot", "exited"}
          /\ passes = 0 /\ work = 0
          /\ candidates = <<>> /\ markets = <<>> /\ mapped = <<>> /\ loaded = {}
          /\ trace = <<>> /\ ledger = <<>> /\ outbox = <<>> /\ ~read_failed

C23_Witness ==
    /\ variant = "http" /\ pc = "exited"
    /\ env["SUPABASE_SERVICE_KEY"] = "empty"
    /\ \A s \in DOMAIN env \ {"SUPABASE_SERVICE_KEY"} : env[s] = "set"

(***************************************************************************)
(* Properties of get_conn (ConnSpec).                                      *)
(***************************************************************************)
Resolved == {conn.infos[i] : i \in 1..Len(conn.infos)}

AttemptsOn(a) == {k \in 1..Len(conn.log) : conn.log[k].to = a}

FirstAt(a) == CHOOSE i \in 1..Len(conn.infos) :
                  conn.infos[i] = a /\ \A j \in 1..(i - 1) : conn.infos[j] # a

(* C29: get_conn tries each distinct resolved IPv4 address at most 3 times *)
(* and in order, makes no attempt after a success, tries the DSN exactly   *)
(* once and only when every IPv4 attempt has failed or no address was      *)
(* resolved, raises when the DSN attempt fails too, and so makes at most   *)
(* 3 x (number of distinct addresses) + 1 connect attempts.                *)
C29_ConnectAttemptsBounded ==
    LET log == conn.log IN
    /\ \A a \in Resolved : Cardinality(AttemptsOn(a)) <= 3
    /\ \A k \in 1..Len(log) : log[k].to \in Resolved \cup {"dsn"}
    /\ \A k, l \in 1..Len(log) :
          (k < l /\ log[k].to # "dsn" /\ log[l].to # "dsn")
              => FirstAt(log[k].to) <= FirstAt(log[l].to)
    /\ \A k \in 1..Len(log) : log[k].ok => k = Len(log)
    /\ Cardinality(AttemptsOn("dsn")) <= 1
    /\ \A k \in 1..Len(log) :
          log[k].to = "dsn" =>
              /\ k = Len(log)
              /\ \A a \in Resolved : Cardinality(AttemptsOn(a)) = 3
    /\ conn.status = "connected" <=> (log # <<>> /\ log[Len(log)].ok)
    /\ conn.status = "raised" <=>
          (log # <<>> /\ log[Len(log)].to = "dsn" /\ ~log[Len(log)].ok)
    /\ conn.status = "dsn" =>
          (Cardinality(AttemptsOn("dsn")) = 0
           /\ \A a \in Resolved : Cardinality(AttemptsOn(a)) = 3)
    /\ Len(log) <= 3 * Cardinality(Resolved) + 1

C29_Witness ==
    /\ conn.status = "raised"
    /\ conn.infos = <<"10.0.0.1", "10.0.0.1", "10.0.0.2">>
    /\ Len(conn.log) = 7
----------------------------------------------------------------------------
(* The row the record step of the current candidate has just written *)
JustRecorded == variant = "http" /\ pc = "next" /\ LastEvent = "record_ok"
FallbackEvents == {"lookup", "list_request", "chart_request"}

(* C31: every alert recorded with type 'exchange_multi_tv_fallback' was    *)
(* evaluated with at least one of its two bar sequences taken from the     *)
(* CoinGecko synthesis, and every alert recorded with type                 *)
(* 'exchange_multi_tv' was evaluated on exchange bars only, with no        *)
(* fallback request made for that candidate.                               *)
C31_RecordedTypeTellsBarSource ==
    JustRecorded =>
        LET row == ledger[Len(ledger)] IN
        /\ row.alert_type \in {"exchange_multi_tv_fallback", "exchange_multi_tv"}
        /\ row.alert_type = "exchange_multi_tv_fallback"
              => /\ df1h \in CgHandles \/ df15m \in CgHandles
                 /\ InTrace("chart_request")
        /\ row.alert_type = "exchange_multi_tv"
              => /\ df1h \in ExchangeHandles1h
                 /\ df15m \in ExchangeHandles15m
                 /\ ~Happened(FallbackEvents)

C31_Witness ==
    /\ JustRecorded
    /\ ledger[Len(ledger)].alert_type = "exchange_multi_tv_fallback"
    /\ df1h \in CgHandles
    /\ df15m \in ExchangeHandles15m
----------------------------------------------------------------------------
(* C32: the CoinGecko coin-list endpoint is requested at most once per     *)
(* process.  After the first call of build_coingecko_symbol_map, whether   *)
(* it succeeded or failed, the cache stays what that call left and no      *)
(* later lookup makes a list request; after a failed first build the cache *)
(* is the empty map, so every lookup returns None and no chart is          *)
(* requested and no synthesized frame is used for the rest of the process. *)
C32_CoinListRequestedOnce ==
    [][ (variant = "http" /\ passes' = passes) =>
          /\ cg_map # "None" => cg_map' = cg_map
          /\ (~InTrace("list_request") /\ InTrace("list_request")')
                => /\ cg_map = "None"
                   /\ cg_map' \in {"built", "empty"}
          /\ (pc = "fallback" /\ cg_map # "None") => ~InTrace("list_request")'
          /\ cg_map' = "empty"
                => /\ ~InTrace("chart_request")'
                   /\ ~used_fallback'
                   /\ df1h' \notin CgHandles /\ df15m' \notin CgHandles ]_vars

C32_Witness ==
    /\ variant = "http"
    /\ cg_map = "empty"
    /\ idx = 2
    /\ pc = "evaluate"
    /\ InTrace("lookup")
    /\ ~InTrace("list_request")
----------------------------------------------------------------------------
(* The ledger holds no record of key k at all *)
Unrecorded(k) == \A i \in 1..Len(ledger) : ledger[i].coin_id # k
Listed(k) == \E i \in 1..Len(alerts_sent) : alerts_sent[i] = k

(* C33: when record_alert fails after a successful dispatch the failure is *)
(* swallowed: the ledger is left unchanged, the asset key is still         *)
(* appended to the returned list and the pass goes on with the next        *)
(* candidate; a later qualifying occurrence of the same key, which finds   *)
(* no record, goes to dispatch again.                                      *)
C33_FailedRecordSwallowed ==
    [][ variant = "http" =>
          /\ (pc = "record" /\ LastEvent' = "record_fail")
                => /\ InTrace("send_ok")
                   /\ ledger' = ledger
                   /\ alerts_sent' = Append(alerts_sent, CoinId(Cand))
                   /\ pc' = "next"
          /\ (pc = "next" /\ LastEvent = "record_fail")
                => /\ pc' = "loop"
                   /\ UNCHANGED <<ledger, alerts_sent, idx>>
          /\ (pc = "dedup" /\ Listed(CoinId(Cand)) /\ Unrecorded(CoinId(Cand)))
                => /\ pc' = "dispatch"
                   /\ LastEvent' \in {"read_clear", "read_fail"} ]_vars

C33_Witness ==
    /\ variant = "http"
    /\ pc = "record"
    /\ idx = 2
    /\ ledger = <<>>
    /\ alerts_sent = <<CoinId(Cand)>>
    /\ outbox = <<CoinId(Cand), CoinId(Cand)>>
    /\ ~read_failed
----------------------------------------------------------------------------
(* C34: a coin id whose indicator alert was dispatched successfully in the *)
(* first loop is never dispatched again by the CoinGecko-only second loop  *)
(* of the same pass, the second loop never appends an id already in the    *)
(* list, and the returned list contains no coin id twice.                  *)
C34_SecondLoopSkipsAlerted ==
    variant \in SupaVariants =>
        /\ pc = "dispatch2"
              => Deliveries(markets[idx].id) = 0 /\ ~Listed(markets[idx].id)
        /\ pc = "record2"
              => Deliveries(markets[idx].id) = 1 /\ ~Listed(markets[idx].id)
        /\ \A i, j \in 1..Len(alerts_sent) : i < j => alerts_sent[i] # alerts_sent[j]
        /\ \A i, j \in 1..Len(outbox) : i < j => outbox[i] # outbox[j]

C34_Witness ==
    /\ variant \in SupaVariants
    /\ pc = "next2"
    /\ trace = <<"seen">>
    /\ markets[idx].id = "a"
    /\ alerts_sent = <<"a">>
    /\ outbox = <<"a">>
    /\ ledger[Len(ledger)].alert_type = "indicator"
----------------------------------------------------------------------------
(* A pass of the single-exchange variant is over: scan_once has returned   *)
(* or an exception has left it                                             *)
SupaPassOver == variant \in SupaVariants /\ passes > 0 /\ pc \in {"idle", "crashed"}

(* An earlier pass recorded key k within the 6 hours before this pass *)
RecordedBefore(k) == \E a \in PriorAges(k) : a <= Hours(DEDUPE_HOURS)

(* C35: every market entry whose 24h change is at least 10 and whose       *)
(* volume is at least 100000 and which has no ledger record within the     *)
(* last 6 hours gets at least one dispatch attempt in the pass, whatever   *)
(* the indicator rules evaluate to.                                        *)
C35_EligibleEntryAttempted ==
    SupaPassOver =>
        \A i \in 1..Len(markets) :
            (SupaEligible(markets[i]) /\ ~RecordedBefore(markets[i].id))
                => markets[i].id \in attempted

(* The same for the passes that return *)
EligibleAttemptedOnReturn ==
    (SupaPassOver /\ pc = "idle") =>
        \A i \in 1..Len(markets) :
            (SupaEligible(markets[i]) /\ ~RecordedBefore(markets[i].id))
                => markets[i].id \in attempted
----------------------------------------------------------------------------
(* C36: in scanner_coingecko_sqlite an exception raised by                 *)
(* was_alerted_recent for one market entry is caught by the per-entry      *)
(* handler: nothing is dispatched or recorded for that entry, its id is    *)
(* not in the returned list, and the loop continues; an exception raised   *)
(* by record_alert after a successful dispatch is caught the same way,     *)
(* leaving the id out of the returned list and the ledger without a record *)
(* for that dispatch.                                                      *)
C36_EntryHandlerCatches ==
    [][ variant = "sqlite" =>
          /\ (pc = "dedup" /\ LastEvent' = "read_raise")
                => /\ pc' = "next"
                   /\ UNCHANGED <<ledger, alerts_sent, outbox, attempted, idx>>
          /\ (pc = "next" /\ InTrace("read_raise"))
                => /\ ~Happened(SendEvents \cup RecordEvents)
                   /\ markets[idx].id \notin attempted
                   /\ ~Listed(markets[idx].id)
                   /\ SamePassRows(markets[idx].id) = 0
                   /\ pc' = "loop"
                   /\ UNCHANGED <<ledger, alerts_sent, outbox, attempted, idx>>
          /\ (pc = "record" /\ LastEvent' = "record_raise")
                => /\ InTrace("send_ok")
                   /\ pc' = "next"
                   /\ UNCHANGED <<ledger, alerts_sent, outbox, idx>>
          /\ (pc = "next" /\ LastEvent = "record_raise")
                => /\ Deliveries(markets[idx].id) = 1
                   /\ ~Listed(markets[idx].id)
                   /\ SamePassRows(markets[idx].id) = 0
                   /\ pc' = "loop"
                   /\ UNCHANGED <<ledger, alerts_sent, outbox, idx>>
          /\ pc' = "crashed" => pc \in {"discover", "crashed"} ]_vars

C36_Witness ==
    /\ variant = "sqlite"
    /\ passes = 1
    /\ read_failed
    /\ idx = 2
    /\ pc = "next"
    /\ LastEvent = "record_raise"
    /\ attempted = {markets[2].id}
    /\ outbox = <<markets[2].id>>
    /\ alerts_sent = <<>>
    /\ ledger = <<>>

====
